---- MODULE Spec2Model ----
(***************************************************************************)
(* Everything Web Server (src/main.go): the query-result cache with TTL    *)
(* and pagination behind /api/search, the cache sweeper and the cache      *)
(* clear handler, and the byte-range aware /stream handler.                *)
(*                                                                         *)
(* Time is counted in minutes.  Strings that the code parses (page,        *)
(* pageSize, Range) are sequences of one-character strings.                *)
(***************************************************************************)
EXTENDS Integers, Sequences, FiniteSets, TLC

\* ------------------------------------------------------------------ bounds

\* The clock stops at MaxTime minutes.
MaxTime == 15
\* The longest path list a Locator backend returns in SpecApi.
MaxPaths == 5
\* The largest file served by the stream handler, in bytes.
MaxFileSize == 3
\* The width of int and int64.  Go's are 64 bits wide; TLC's integers are 32
\* bits wide, so the model keeps the wrap-around of the code's arithmetic at
\* a width of IntBits bits: wide enough for every constant of the program,
\* narrow enough for (page - 1) * pageSize to be computed exactly before it
\* is wrapped.
IntBits == 21
\* The most chunks of output a transcoder process writes.
MaxChunks == 2
\* The clock of SpecSweep stops here.
MaxSweepTime == 25
\* The SearchCache objects SpecHeap allocates.
MaxObjects == 2
\* The chunks a transcoder writes to its stderr.
MaxErrChunks == 2
\* The chunks the stderr pipe holds before a write to it blocks.
StderrPipeCap == 1

\* ------------------------------------------------------- program constants

cacheExpiry == 10
TickerInterval == 5
DefaultPageSize == 50
MaxPageSize == 200
StatusOK == 200
StatusPartialContent == 206
StatusBadRequest == 400
StatusNotFound == 404
StatusRequestedRangeNotSatisfiable == 416
StatusInternalServerError == 500
StatusServiceUnavailable == 503
StatusSeeOther == 303
\* The page size searchFiles passes.
LegacyPageSize == 999999
\* The passes of the URL decoding loop of the media handlers
DecodePasses == 3
\* The handler panicked: net/http recovers and aborts the connection, so the
\* client gets no status line at all.
NoStatus == 0

MaxInt == 2^(IntBits - 1) - 1
MinInt == -(2^(IntBits - 1))

WrapInt(x) == ((x - MinInt) % 2^IntBits) + MinInt

Min(a, b) == IF a < b THEN a ELSE b

\* -------------------------------------------------------- strconv.Atoi

DigitVal ==
  [c \in {"0", "1", "2", "3", "4", "5", "6", "7", "8", "9"} |->
     CASE c = "0" -> 0 [] c = "1" -> 1 [] c = "2" -> 2 [] c = "3" -> 3
       [] c = "4" -> 4 [] c = "5" -> 5 [] c = "6" -> 6 [] c = "7" -> 7
       [] c = "8" -> 8 [] c = "9" -> 9]

\* The magnitude of a digit string, saturated at cutoff + 1; -1 when a
\* character is not a digit.
RECURSIVE ParseUint(_, _, _)
ParseUint(s, acc, cutoff) ==
  IF s = <<>> THEN acc
  ELSE IF Head(s) \notin DOMAIN DigitVal THEN -1
  ELSE ParseUint(Tail(s), Min(acc * 10 + DigitVal[Head(s)], cutoff + 1), cutoff)

\* strconv.ParseInt(s, 10, bits) for a width with the given largest value:
\* an optional sign, then at least one digit, and a range error past
\* [-(max+1), max].
ParseSigned(s, max) ==
  LET signed == s # <<>> /\ Head(s) \in {"+", "-"}
      neg    == s # <<>> /\ Head(s) = "-"
      body   == IF signed THEN Tail(s) ELSE s
      mag    == IF body = <<>> THEN -1 ELSE ParseUint(body, 0, max + 1)
  IN  IF mag = -1 THEN [err |-> TRUE, val |-> 0]
      ELSE IF neg
        THEN IF mag > max + 1 THEN [err |-> TRUE, val |-> -(max + 1)]
                              ELSE [err |-> FALSE, val |-> -mag]
        ELSE IF mag > max THEN [err |-> TRUE, val |-> max]
                          ELSE [err |-> FALSE, val |-> mag]

Atoi(s) == ParseSigned(s, MaxInt)

\* The decimal digits of n >= 0, as the characters a client would send.
RECURSIVE Decimal(_)
Decimal(n) ==
  LET d == CHOOSE c \in DOMAIN DigitVal : DigitVal[c] = n % 10
  IN  IF n < 10 THEN <<d>> ELSE Append(Decimal(n \div 10), d)

\* ------------------------------------------------------------------ state

\* The goroutines net/http runs apiSearchHandler on.
Procs == {"r1", "r2"}

NoEntry == [absent |-> TRUE]
None == "none"

VARIABLES
  searchCache,   \* query -> *SearchCache, NoEntry for a key the map lacks
  cacheMutex,    \* sync.RWMutex: [writer, readers]
  now,           \* the clock, in minutes
  tickerC,       \* a tick is waiting in the sweeper's ticker channel
  pc,            \* where each search request is
  req,           \* each search request's parameters and locals
  resp,          \* each search request's response
  sweeperPc,     \* where the sweeper goroutine is
  clearPc,       \* where cacheClearHandler is
  oldCount,      \* cacheClearHandler's local
  clearResp      \* cleared_count of cacheClearHandler's response

searchVars == <<searchCache, cacheMutex, now, tickerC, pc, req, resp,
                sweeperPc, clearPc, oldCount, clearResp>>

VARIABLES
  streamPc,    \* where the stream request is
  sreq,        \* the stream request: Range header, file size, copy position
  fileOpen,    \* the *os.File of the request is open
  sresp        \* the stream response: status, headers, body

streamVars == <<streamPc, sreq, fileOpen, sresp>>

\* The goroutines net/http runs transcodeHandler on.
TProcs == {"t1"}

VARIABLES
  mainPc,           \* where main is: "boot" before the probe, then "serving"
  ffmpegAvailable,  \* the global set by checkFFmpegAvailability
  tpc,              \* where each transcode request is
  treq,             \* each transcode request: resolved path, other inputs
  tresp,            \* each transcode response: status, headers, body
  tproc,            \* the ffmpeg process of each request
  tpipe,            \* the pipe from the process's stdout to the copier
  tcopy,            \* the goroutine of exec.Cmd copying the pipe to w
  tstderr,          \* the goroutine draining the process's stderr
  terr,             \* the pipe from the process's stderr, and what was logged
  tlog              \* the transcoder command line last run by an ended request

transVars == <<mainPc, ffmpegAvailable, tpc, treq, tresp, tproc, tpipe,
               tcopy, tstderr, terr, tlog>>

VARIABLES
  statusPc,    \* where cacheStatusHandler is
  status,      \* cacheStatusHandler's local map
  statusResp   \* the JSON document cacheStatusHandler has written

statusVars == <<statusPc, status, statusResp>>

\* The cache as Go stores it: a map from queries to pointers to SearchCache
\* objects. SpecHeap follows the pointers; the other specifications work on
\* the values (searchCache above).
VARIABLES
  heap,    \* the SearchCache objects allocated so far, by address
  hmap,    \* query -> address, Nil for a key the map lacks
  hpc,     \* where each search request is
  hreq,    \* each search request's locals: cache and allPaths are references
  hresp    \* each search request's response

heapVars == <<heap, hmap, hpc, hreq, hresp>>

\* The queries that can key the map: both handlers return before the lookup
\* when the query is empty.
Keys == {"video", "doc"}

NoReq ==
  [query |-> "", pageStr |-> <<>>, pageSizeStr |-> <<>>, page |-> 0,
   pageSize |-> 0, cache |-> NoEntry, allPaths |-> <<>>, fromCache |-> FALSE,
   sdk |-> None, es |-> None, sdkCalls |-> 0, esCalls |-> 0, err |-> None,
   legacy |-> FALSE]

NoResp == [status |-> NoStatus, sent |-> FALSE]

SearchInit ==
  /\ searchCache = [q \in Keys |-> NoEntry]
  /\ cacheMutex = [writer |-> None, readers |-> {}]
  /\ now = 0
  /\ tickerC = FALSE
  /\ pc = [r \in Procs |-> "idle"]
  /\ req = [r \in Procs |-> NoReq]
  /\ resp = [r \in Procs |-> NoResp]
  /\ sweeperPc = "wait"
  /\ clearPc = "idle"
  /\ oldCount = 0
  /\ clearResp = -1

\* ------------------------------------------------------------ sync.RWMutex

CanRLock(m) == m.writer = None
CanLock(m) == m.writer = None /\ m.readers = {}
RLocked(m, h) == [m EXCEPT !.readers = @ \cup {h}]
RUnlocked(m, h) == [m EXCEPT !.readers = @ \ {h}]
Locked(m, h) == [m EXCEPT !.writer = h]
Unlocked(m) == [m EXCEPT !.writer = None]

\* len(searchCache)
CacheLen(c) == Cardinality({q \in Keys : c[q] # NoEntry})

\* ------------------------------------------------- apiSearchHandler: parse

EffectivePage(pageStr) ==
  IF pageStr # <<>>
    THEN LET a == Atoi(pageStr) IN IF ~a.err /\ a.val > 0 THEN a.val ELSE 1
    ELSE 1

\* As EffectivePageSize, without the upper limit.
EffectivePageSizeNoMax(pageSizeStr) ==
  IF pageSizeStr # <<>>
    THEN LET a == Atoi(pageSizeStr)
         IN  IF ~a.err /\ a.val > 0 THEN a.val ELSE DefaultPageSize
    ELSE DefaultPageSize

EffectivePageSize(pageSizeStr) ==
  IF pageSizeStr # <<>>
    THEN LET a == Atoi(pageSizeStr)
         IN  IF ~a.err /\ a.val > 0 /\ a.val <= MaxPageSize THEN a.val
             ELSE DefaultPageSize
    ELSE DefaultPageSize

\* A request arrives: the handler reads q, page and pageSize, answers 400 for
\* an empty q and otherwise calls searchFilesWithCache.
ApiSearchStart(r, q, pageStr, pageSizeStr) ==
  /\ pc[r] = "idle"
  /\ IF q = ""
       THEN /\ resp' = [resp EXCEPT ![r] = [status |-> StatusBadRequest, sent |-> TRUE]]
            /\ req' = [req EXCEPT ![r] = [NoReq EXCEPT !.pageStr = pageStr,
                                                        !.pageSizeStr = pageSizeStr]]
            /\ pc' = [pc EXCEPT ![r] = "done"]
       ELSE /\ req' = [req EXCEPT ![r] =
                         [NoReq EXCEPT !.query = q,
                                       !.pageStr = pageStr,
                                       !.pageSizeStr = pageSizeStr,
                                       !.page = EffectivePage(pageStr),
                                       !.pageSize = EffectivePageSize(pageSizeStr)]]
            /\ pc' = [pc EXCEPT ![r] = "rlock"]
            /\ UNCHANGED resp
  /\ UNCHANGED <<searchCache, cacheMutex, now, tickerC, sweeperPc, clearPc,
                 oldCount, clearResp>>
  /\ UNCHANGED <<streamVars, transVars, statusVars, heapVars>>

\* A request for /search arrives: searchHandler reads the parameter search,
\* redirects to / when it is empty and otherwise calls searchFiles, which
\* calls searchFilesOptimized(query, 1, 999999).
SearchHandlerStart(r, q) ==
  /\ pc[r] = "idle"
  /\ IF q = ""
       THEN /\ resp' = [resp EXCEPT ![r] = [status |-> StatusSeeOther, sent |-> TRUE]]
            /\ req' = [req EXCEPT ![r] = [NoReq EXCEPT !.legacy = TRUE]]
            /\ pc' = [pc EXCEPT ![r] = "done"]
       ELSE /\ req' = [req EXCEPT ![r] =
                         [NoReq EXCEPT !.query = q,
                                       !.legacy = TRUE,
                                       !.page = 1,
                                       !.pageSize = LegacyPageSize]]
            /\ pc' = [pc EXCEPT ![r] = "rlock"]
            /\ UNCHANGED resp
  /\ UNCHANGED <<searchCache, cacheMutex, now, tickerC, sweeperPc, clearPc,
                 oldCount, clearResp>>
  /\ UNCHANGED <<streamVars, transVars, statusVars, heapVars>>

\* ------------------------------------------- searchFilesWithCache: lookup

CacheRLock(r) ==
  /\ pc[r] = "rlock"
  /\ CanRLock(cacheMutex)
  /\ cacheMutex' = RLocked(cacheMutex, r)
  /\ pc' = [pc EXCEPT ![r] = "read"]
  /\ UNCHANGED <<searchCache, now, tickerC, req, resp, sweeperPc, clearPc,
                 oldCount, clearResp>>
  /\ UNCHANGED <<streamVars, transVars, statusVars, heapVars>>

\* As CacheRead, but the lookup refreshes the entry's Timestamp.
CacheReadTouch(r) ==
  /\ pc[r] = "read"
  /\ req' = [req EXCEPT ![r].cache = searchCache[req[r].query]]
  /\ searchCache' = [searchCache EXCEPT ![req[r].query] =
                       IF @ = NoEntry THEN @ ELSE [@ EXCEPT !.Timestamp = now]]
  /\ cacheMutex' = RUnlocked(cacheMutex, r)
  /\ pc' = [pc EXCEPT ![r] = "check"]
  /\ UNCHANGED <<now, tickerC, resp, sweeperPc, clearPc, oldCount, clearResp>>
  /\ UNCHANGED <<streamVars, transVars, statusVars, heapVars>>

\* cache, exists := searchCache[query]; RUnlock
CacheRead(r) ==
  /\ pc[r] = "read"
  /\ req' = [req EXCEPT ![r].cache = searchCache[req[r].query]]
  /\ cacheMutex' = RUnlocked(cacheMutex, r)
  /\ pc' = [pc EXCEPT ![r] = "check"]
  /\ UNCHANGED <<searchCache, now, tickerC, resp, sweeperPc, clearPc,
                 oldCount, clearResp>>
  /\ UNCHANGED <<streamVars, transVars, statusVars, heapVars>>

\* As CacheFresh, with the comparison off by one: an entry aged exactly
\* cacheExpiry still counts as fresh.
CacheFreshInclusive(cache, t) == cache # NoEntry /\ t - cache.Timestamp <= cacheExpiry

\* exists && time.Since(cache.Timestamp) < cacheExpiry
CacheFresh(cache, t) == cache # NoEntry /\ t - cache.Timestamp < cacheExpiry

CacheCheck(r) ==
  /\ pc[r] = "check"
  /\ IF CacheFresh(req[r].cache, now)
       THEN /\ req' = [req EXCEPT ![r].allPaths = req[r].cache.Paths,
                                  ![r].fromCache = TRUE,
                                  ![r].cache = NoEntry]
            /\ pc' = [pc EXCEPT ![r] = "page"]
       ELSE /\ req' = [req EXCEPT ![r].cache = NoEntry]
            /\ pc' = [pc EXCEPT ![r] = "sdk"]
  /\ UNCHANGED <<searchCache, cacheMutex, now, tickerC, resp, sweeperPc,
                 clearPc, oldCount, clearResp>>
  /\ UNCHANGED <<streamVars, transVars, statusVars, heapVars>>

\* ------------------------------------------ searchFilesWithCache: Locator

\* What a Locator backend returns: ([]string, error).
Fail == [err |-> TRUE, paths |-> <<>>]
Found(paths) == [err |-> FALSE, paths |-> paths]
Outcomes(lists) == {Fail} \cup {Found(p) : p \in lists}

\* The error values of the two backends.
SDKError == "Everything SDK error"
ESError == "es.exe error"

\* fmt.Errorf("... SDK错误: %v, es.exe错误: %v", a, b)
CombinedError(a, b) == [sdk |-> a, es |-> b]

\* searchWithEverythingSDK(query): a path list, or an error.
SearchSDK(r, res) ==
  /\ pc[r] = "sdk"
  /\ IF res.err
       THEN /\ req' = [req EXCEPT ![r].sdk = "failed", ![r].sdkCalls = @ + 1,
                                  ![r].err = SDKError]
            /\ pc' = [pc EXCEPT ![r] = "esexe"]
       ELSE /\ req' = [req EXCEPT ![r].sdk = "ok", ![r].sdkCalls = @ + 1,
                                  ![r].allPaths = res.paths]
            /\ pc' = [pc EXCEPT ![r] = "wlock"]
  /\ UNCHANGED <<searchCache, cacheMutex, now, tickerC, resp, sweeperPc,
                 clearPc, oldCount, clearResp>>
  /\ UNCHANGED <<streamVars, transVars, statusVars, heapVars>>

\* As SearchFailedStatus, blaming the client for the failed search.
SearchFailedStatusBadRequest == StatusBadRequest

\* The status apiSearchHandler answers with when searchFilesWithCache
\* returns an error.
SearchFailedStatus == StatusInternalServerError

\* searchWithESExe(query), the fallback, its error assigned to the same err;
\* when it fails too the handler answers with the error built from err.
SearchESExe(r, res) ==
  /\ pc[r] = "esexe"
  /\ IF res.err
       THEN LET err == ESError
            IN  /\ req' = [req EXCEPT ![r].es = "failed", ![r].esCalls = @ + 1,
                                      ![r].err = err]
                /\ resp' = [resp EXCEPT ![r] =
                             [status |-> SearchFailedStatus, sent |-> TRUE,
                              error |-> CombinedError(err, err)]]
                /\ pc' = [pc EXCEPT ![r] = "done"]
       ELSE /\ req' = [req EXCEPT ![r].es = "ok", ![r].esCalls = @ + 1,
                                  ![r].err = None,
                                  ![r].allPaths = res.paths]
            /\ pc' = [pc EXCEPT ![r] = "wlock"]
            /\ UNCHANGED resp
  /\ UNCHANGED <<searchCache, cacheMutex, now, tickerC, sweeperPc, clearPc,
                 oldCount, clearResp>>
  /\ UNCHANGED <<streamVars, transVars, statusVars, heapVars>>

\* ---------------------------------------------- searchFilesWithCache: put

CacheLock(r) ==
  /\ pc[r] = "wlock"
  /\ CanLock(cacheMutex)
  /\ cacheMutex' = Locked(cacheMutex, r)
  /\ pc' = [pc EXCEPT ![r] = "put"]
  /\ UNCHANGED <<searchCache, now, tickerC, req, resp, sweeperPc, clearPc,
                 oldCount, clearResp>>
  /\ UNCHANGED <<streamVars, transVars, statusVars, heapVars>>

\* searchCache[query] = &SearchCache{Paths: allPaths, Timestamp: time.Now()}
NewEntry(paths, t) == [Paths |-> paths, Timestamp |-> t]

\* As CachePut, not storing an empty list.
CachePutNonEmpty(r) ==
  /\ pc[r] = "put"
  /\ searchCache' = IF req[r].allPaths = <<>> THEN searchCache
                    ELSE [searchCache EXCEPT ![req[r].query] =
                            NewEntry(req[r].allPaths, now)]
  /\ cacheMutex' = Unlocked(cacheMutex)
  /\ pc' = [pc EXCEPT ![r] = "page"]
  /\ UNCHANGED <<now, tickerC, req, resp, sweeperPc, clearPc, oldCount, clearResp>>
  /\ UNCHANGED <<streamVars, transVars, statusVars, heapVars>>

CachePut(r) ==
  /\ pc[r] = "put"
  /\ searchCache' = [searchCache EXCEPT ![req[r].query] = NewEntry(req[r].allPaths, now)]
  /\ cacheMutex' = Unlocked(cacheMutex)
  /\ pc' = [pc EXCEPT ![r] = "page"]
  /\ UNCHANGED <<now, tickerC, req, resp, sweeperPc, clearPc, oldCount, clearResp>>
  /\ UNCHANGED <<streamVars, transVars, statusVars, heapVars>>

\* ------------------------------------------- searchFilesWithCache: the page

\* As WindowStart, counting pages from 0.
WindowStartFromZero(page, pageSize) == WrapInt(page * pageSize)

\* start := (page - 1) * pageSize, in int arithmetic
WindowStart(page, pageSize) == WrapInt((page - 1) * pageSize)

\* end := start + pageSize; if end > totalCount { end = totalCount }
WindowEnd(page, pageSize, totalCount) ==
  LET end == WrapInt(WindowStart(page, pageSize) + pageSize)
  IN  IF end > totalCount THEN totalCount ELSE end

\* The values i takes in "for i := start; i < end; i++", entered only when
\* totalCount > 0 and start < totalCount.  Slices are indexed from 0.
LoopIndices(page, pageSize, totalCount) ==
  IF totalCount = 0 \/ ~(WindowStart(page, pageSize) < totalCount)
    THEN {}
    ELSE WindowStart(page, pageSize)..(WindowEnd(page, pageSize, totalCount) - 1)

\* allPaths[i] panics for an index outside [0, len(allPaths)).
IndexPanics(page, pageSize, totalCount) ==
  \E i \in LoopIndices(page, pageSize, totalCount) : i < 0 \/ i >= totalCount

\* The elements of allPaths at the indices from..to-1 (counted from 0) that
\* are not in skip, in order.
RECURSIVE Pick(_, _, _, _)
Pick(allPaths, from, to, skip) ==
  IF from >= to THEN <<>>
  ELSE IF from \in skip THEN Pick(allPaths, from + 1, to, skip)
  ELSE <<allPaths[from + 1]>> \o Pick(allPaths, from + 1, to, skip)

\* As TotalPages, but never less than one page.
TotalPagesAtLeastOne(totalCount, pageSize) ==
  IF totalCount = 0 THEN 1 ELSE WrapInt(totalCount + pageSize - 1) \div pageSize

\* totalPages := (totalCount + pageSize - 1) / pageSize
TotalPages(totalCount, pageSize) == WrapInt(totalCount + pageSize - 1) \div pageSize

\* The indices whose path is stat'ed: none when the first index panics.
StatIndices(page, pageSize, totalCount) ==
  IF IndexPanics(page, pageSize, totalCount) THEN {}
  ELSE LoopIndices(page, pageSize, totalCount)

\* As Visited, keeping the paths whose stat failed.
VisitedAll(allPaths, page, pageSize, skip) ==
  IF StatIndices(page, pageSize, Len(allPaths)) = {} THEN <<>>
  ELSE Pick(allPaths, WindowStart(page, pageSize),
            WindowEnd(page, pageSize, Len(allPaths)), {})

\* The paths of the loop's indices whose stat succeeds, in order.
Visited(allPaths, page, pageSize, skip) ==
  IF StatIndices(page, pageSize, Len(allPaths)) = {} THEN <<>>
  ELSE Pick(allPaths, WindowStart(page, pageSize),
            WindowEnd(page, pageSize, Len(allPaths)), skip)

\* The rest of searchFilesWithCache and of apiSearchHandler: the window of
\* the page, a stat of each path in it (statFailed: the indices whose stat
\* fails), and the JSON response.
Paginate(r, statFailed) ==
  LET allPaths   == req[r].allPaths
      page       == req[r].page
      pageSize   == req[r].pageSize
      totalCount == Len(allPaths)
  IN  /\ pc[r] = "page"
      /\ ~req[r].legacy
      /\ statFailed \subseteq StatIndices(page, pageSize, totalCount)
      /\ IF IndexPanics(page, pageSize, totalCount)
           THEN resp' = [resp EXCEPT ![r] = [status |-> NoStatus, sent |-> FALSE]]
           ELSE resp' = [resp EXCEPT ![r] =
                  [status     |-> StatusOK,
                   sent       |-> TRUE,
                   results    |-> Visited(allPaths, page, pageSize, statFailed),
                   examined   |-> Visited(allPaths, page, pageSize, {}),
                   statFailed |-> statFailed,
                   count      |-> Len(Visited(allPaths, page, pageSize, statFailed)),
                   totalCount |-> totalCount,
                   query      |-> req[r].query,
                   page       |-> page,
                   pageSize   |-> pageSize,
                   totalPages |-> TotalPages(totalCount, pageSize),
                   fromCache  |-> req[r].fromCache]]
      /\ pc' = [pc EXCEPT ![r] = "done"]
      /\ UNCHANGED <<searchCache, cacheMutex, now, tickerC, req, sweeperPc,
                     clearPc, oldCount, clearResp>>
      /\ UNCHANGED <<streamVars, transVars, statusVars, heapVars>>

\* The rest of searchFilesWithCache and of searchHandler: the same window
\* and stats, and the JSON response with results, count and query.
SearchHandlerRespond(r, statFailed) ==
  LET allPaths   == req[r].allPaths
      page       == req[r].page
      pageSize   == req[r].pageSize
      totalCount == Len(allPaths)
  IN  /\ pc[r] = "page"
      /\ req[r].legacy
      /\ statFailed \subseteq StatIndices(page, pageSize, totalCount)
      /\ IF IndexPanics(page, pageSize, totalCount)
           THEN resp' = [resp EXCEPT ![r] = [status |-> NoStatus, sent |-> FALSE]]
           ELSE resp' = [resp EXCEPT ![r] =
                  [status     |-> StatusOK,
                   sent       |-> TRUE,
                   results    |-> Visited(allPaths, page, pageSize, statFailed),
                   examined   |-> Visited(allPaths, page, pageSize, {}),
                   statFailed |-> statFailed,
                   count      |-> Len(Visited(allPaths, page, pageSize, statFailed)),
                   query      |-> req[r].query]]
      /\ pc' = [pc EXCEPT ![r] = "done"]
      /\ UNCHANGED <<searchCache, cacheMutex, now, tickerC, req, sweeperPc,
                     clearPc, oldCount, clearResp>>
      /\ UNCHANGED <<streamVars, transVars, statusVars, heapVars>>

\* The handler has returned; the goroutine serves the next request.
Finish(r) ==
  /\ pc[r] = "done"
  /\ pc' = [pc EXCEPT ![r] = "idle"]
  /\ req' = [req EXCEPT ![r] = NoReq]
  /\ resp' = [resp EXCEPT ![r] = NoResp]
  /\ UNCHANGED <<searchCache, cacheMutex, now, tickerC, sweeperPc, clearPc,
                 oldCount, clearResp>>
  /\ UNCHANGED <<streamVars, transVars, statusVars, heapVars>>

\* ------------------------------------------------------ clock and sweeper

\* TickerInterval minutes pass; the ticker of main's goroutine fires.
Tick ==
  /\ now + TickerInterval <= MaxTime
  /\ now' = now + TickerInterval
  /\ tickerC' = TRUE
  /\ UNCHANGED <<searchCache, cacheMutex, pc, req, resp, sweeperPc, clearPc,
                 oldCount, clearResp>>
  /\ UNCHANGED <<streamVars, transVars, statusVars, heapVars>>

\* case <-ticker.C: cleanExpiredCache()
SweeperWake ==
  /\ sweeperPc = "wait"
  /\ tickerC
  /\ tickerC' = FALSE
  /\ sweeperPc' = "lock"
  /\ UNCHANGED <<searchCache, cacheMutex, now, pc, req, resp, clearPc,
                 oldCount, clearResp>>
  /\ UNCHANGED <<streamVars, transVars, statusVars, heapVars>>

SweeperLock ==
  /\ sweeperPc = "lock"
  /\ CanLock(cacheMutex)
  /\ cacheMutex' = Locked(cacheMutex, "sweeper")
  /\ sweeperPc' = "sweep"
  /\ UNCHANGED <<searchCache, now, tickerC, pc, req, resp, clearPc, oldCount,
                 clearResp>>
  /\ UNCHANGED <<streamVars, transVars, statusVars, heapVars>>

\* time.Since(cache.Timestamp) > cacheExpiry
SweepExpired(cache, t) == t - cache.Timestamp > cacheExpiry

\* The map after cleanExpiredCache's loop.
Swept(c, t) ==
  [q \in Keys |-> IF c[q] # NoEntry /\ SweepExpired(c[q], t) THEN NoEntry ELSE c[q]]

SweeperSweep ==
  /\ sweeperPc = "sweep"
  /\ searchCache' = Swept(searchCache, now)
  /\ cacheMutex' = Unlocked(cacheMutex)
  /\ sweeperPc' = "wait"
  /\ UNCHANGED <<now, tickerC, pc, req, resp, clearPc, oldCount, clearResp>>
  /\ UNCHANGED <<streamVars, transVars, statusVars, heapVars>>

\* ------------------------------------------------------ cacheClearHandler

\* As ClearLock, but taking the read lock.
ClearRLock ==
  /\ clearPc = "idle"
  /\ CanRLock(cacheMutex)
  /\ cacheMutex' = RLocked(cacheMutex, "clear")
  /\ clearPc' = "locked"
  /\ clearResp' = -1
  /\ UNCHANGED <<searchCache, now, tickerC, pc, req, resp, sweeperPc, oldCount>>
  /\ UNCHANGED <<streamVars, transVars, statusVars, heapVars>>

ClearLock ==
  /\ clearPc = "idle"
  /\ CanLock(cacheMutex)
  /\ cacheMutex' = Locked(cacheMutex, "clear")
  /\ clearPc' = "locked"
  /\ clearResp' = -1
  /\ UNCHANGED <<searchCache, now, tickerC, pc, req, resp, sweeperPc, oldCount>>
  /\ UNCHANGED <<streamVars, transVars, statusVars, heapVars>>

\* oldCount := len(searchCache)
ClearCount ==
  /\ clearPc = "locked"
  /\ oldCount' = CacheLen(searchCache)
  /\ clearPc' = "counted"
  /\ UNCHANGED <<searchCache, cacheMutex, now, tickerC, pc, req, resp,
                 sweeperPc, clearResp>>
  /\ UNCHANGED <<streamVars, transVars, statusVars, heapVars>>

\* searchCache = make(map[string]*SearchCache)
ClearReplace ==
  /\ clearPc = "counted"
  /\ searchCache' = [q \in Keys |-> NoEntry]
  /\ clearPc' = "replaced"
  /\ UNCHANGED <<cacheMutex, now, tickerC, pc, req, resp, sweeperPc, oldCount,
                 clearResp>>
  /\ UNCHANGED <<streamVars, transVars, statusVars, heapVars>>

\* The JSON response with cleared_count, then the deferred Unlock.
ClearRespond ==
  /\ clearPc = "replaced"
  /\ clearResp' = oldCount
  /\ cacheMutex' = Unlocked(cacheMutex)
  /\ clearPc' = "idle"
  /\ oldCount' = 0
  /\ UNCHANGED <<searchCache, now, tickerC, pc, req, resp, sweeperPc>>
  /\ UNCHANGED <<streamVars, transVars, statusVars, heapVars>>

\* ----------------------------------------------------- cacheStatusHandler

NoStatusMap == [cache_count |-> 0, caches |-> {}]

StatusInit ==
  /\ statusPc = "idle"
  /\ status = NoStatusMap
  /\ statusResp = None

\* The "caches" list: one info per stored query.
CacheInfo(c, t) ==
  {[query |-> q, path_count |-> Len(c[q].Paths),
    age_minutes |-> t - c[q].Timestamp] : q \in {k \in Keys : c[k] # NoEntry}}

\* cacheMutex.RLock(); defer cacheMutex.RUnlock()
StatusRLock ==
  /\ statusPc = "idle"
  /\ CanRLock(cacheMutex)
  /\ cacheMutex' = RLocked(cacheMutex, "status")
  /\ statusPc' = "locked"
  /\ statusResp' = None
  /\ UNCHANGED <<searchCache, now, tickerC, pc, req, resp, sweeperPc, clearPc,
                 oldCount, clearResp, status>>
  /\ UNCHANGED <<streamVars, transVars, heapVars>>

\* The status map is filled from searchCache.
StatusBuild ==
  /\ statusPc = "locked"
  /\ status' = [cache_count |-> CacheLen(searchCache),
                caches |-> CacheInfo(searchCache, now)]
  /\ statusPc' = "built"
  /\ UNCHANGED <<searchVars, statusResp>>
  /\ UNCHANGED <<streamVars, transVars, heapVars>>

\* json.NewEncoder(w).Encode(status), then the deferred RUnlock.
StatusRespond ==
  /\ statusPc = "built"
  /\ statusResp' = status
  /\ cacheMutex' = RUnlocked(cacheMutex, "status")
  /\ statusPc' = "idle"
  /\ status' = NoStatusMap
  /\ UNCHANGED <<searchCache, now, tickerC, pc, req, resp, sweeperPc, clearPc,
                 oldCount, clearResp>>
  /\ UNCHANGED <<streamVars, transVars, heapVars>>

\* ------------------------------------------- the cache as map of pointers

Nil == 0
Addrs == 1..MaxObjects
HProcs == {"r1", "r2"}
HQuery == "video"

\* allPaths is a slice: the object whose Paths it shares and its length.
NoSlice == [obj |-> Nil, len |-> 0]

\* seen: what the object of the request's reference held when the request
\* obtained the reference, by the lookup or by its own put (not in the code).
NoHreq ==
  [cache |-> Nil, seen |-> NoEntry, located |-> <<>>, allPaths |-> NoSlice,
   fromCache |-> FALSE]

NoHresp == [sent |-> FALSE]

HeapInit ==
  /\ heap = [a \in Addrs |-> NoEntry]
  /\ hmap = [q \in Keys |-> Nil]
  /\ hpc = [r \in HProcs |-> "idle"]
  /\ hreq = [r \in HProcs |-> NoHreq]
  /\ hresp = [r \in HProcs |-> NoHresp]

Free == {a \in Addrs : heap[a] = NoEntry}

HStart(r) ==
  /\ hpc[r] = "idle"
  /\ hpc' = [hpc EXCEPT ![r] = "get"]
  /\ UNCHANGED <<heap, hmap, hreq, hresp>>
  /\ UNCHANGED <<searchVars, streamVars, transVars, statusVars>>

\* cacheMutex.RLock(); cache, exists := searchCache[query]; RUnlock()
HGet(r) ==
  /\ hpc[r] = "get"
  /\ hreq' = [hreq EXCEPT ![r].cache = hmap[HQuery],
                          ![r].seen = IF hmap[HQuery] = Nil THEN NoEntry
                                      ELSE heap[hmap[HQuery]]]
  /\ hpc' = [hpc EXCEPT ![r] = "check"]
  /\ UNCHANGED <<heap, hmap, hresp>>
  /\ UNCHANGED <<searchVars, streamVars, transVars, statusVars>>

\* exists && time.Since(cache.Timestamp) < cacheExpiry; allPaths = cache.Paths
HCheck(r) ==
  /\ hpc[r] = "check"
  /\ LET cache == hreq[r].cache
     IN  IF cache # Nil /\ CacheFresh(heap[cache], now)
           THEN /\ hreq' = [hreq EXCEPT
                              ![r].allPaths = [obj |-> cache,
                                               len |-> Len(heap[cache].Paths)],
                              ![r].fromCache = TRUE]
                /\ hpc' = [hpc EXCEPT ![r] = "page"]
           ELSE /\ hpc' = [hpc EXCEPT ![r] = "locate"]
                /\ UNCHANGED hreq
  /\ UNCHANGED <<heap, hmap, hresp>>
  /\ UNCHANGED <<searchVars, streamVars, transVars, statusVars>>

\* The two backends in turn; res is the outcome of the last one called.
HLocate(r, res) ==
  /\ hpc[r] = "locate"
  /\ IF res.err
       THEN /\ hresp' = [hresp EXCEPT ![r] = [sent |-> TRUE,
                                              status |-> SearchFailedStatus]]
            /\ hpc' = [hpc EXCEPT ![r] = "done"]
            /\ UNCHANGED hreq
       ELSE /\ hreq' = [hreq EXCEPT ![r].located = res.paths]
            /\ hpc' = [hpc EXCEPT ![r] = "put"]
            /\ UNCHANGED hresp
  /\ UNCHANGED <<heap, hmap>>
  /\ UNCHANGED <<searchVars, streamVars, transVars, statusVars>>

\* As HPut, overwriting the object the map already holds for the query.
HPutInPlace(r) ==
  /\ hpc[r] = "put"
  /\ Free # {}
  /\ LET a == IF hmap[HQuery] # Nil THEN hmap[HQuery]
              ELSE CHOOSE x \in Free : \A y \in Free : x <= y
     IN  /\ heap' = [heap EXCEPT ![a] = NewEntry(hreq[r].located, now)]
         /\ hmap' = [hmap EXCEPT ![HQuery] = a]
         /\ hreq' = [hreq EXCEPT ![r].allPaths =
                                   [obj |-> a, len |-> Len(hreq[r].located)],
                                 ![r].seen = NewEntry(hreq[r].located, now),
                                 ![r].located = <<>>]
  /\ hpc' = [hpc EXCEPT ![r] = "page"]
  /\ UNCHANGED hresp
  /\ UNCHANGED <<searchVars, streamVars, transVars, statusVars>>

\* Lock(); searchCache[query] = &SearchCache{Paths: allPaths, Timestamp:
\* time.Now()}; Unlock(): a new object, whose Paths the request's allPaths
\* shares.
HPut(r) ==
  /\ hpc[r] = "put"
  /\ Free # {}
  /\ LET a == CHOOSE x \in Free : \A y \in Free : x <= y
     IN  /\ heap' = [heap EXCEPT ![a] = NewEntry(hreq[r].located, now)]
         /\ hmap' = [hmap EXCEPT ![HQuery] = a]
         /\ hreq' = [hreq EXCEPT ![r].allPaths =
                                   [obj |-> a, len |-> Len(hreq[r].located)],
                                 ![r].seen = NewEntry(hreq[r].located, now),
                                 ![r].located = <<>>]
  /\ hpc' = [hpc EXCEPT ![r] = "page"]
  /\ UNCHANGED hresp
  /\ UNCHANGED <<searchVars, streamVars, transVars, statusVars>>

\* The elements of a slice, read now; an index past the array panics.
Elements(sl) ==
  IF sl.obj = Nil THEN [panic |-> FALSE, paths |-> <<>>]
  ELSE IF sl.len > Len(heap[sl.obj].Paths) THEN [panic |-> TRUE, paths |-> <<>>]
  ELSE [panic |-> FALSE, paths |-> SubSeq(heap[sl.obj].Paths, 1, sl.len)]

\* totalCount := len(allPaths); the loop over allPaths[i] of the first page.
HPaginate(r) ==
  /\ hpc[r] = "page"
  /\ LET el == Elements(hreq[r].allPaths)
     IN  hresp' = [hresp EXCEPT ![r] =
                     IF el.panic THEN NoHresp
                     ELSE [sent |-> TRUE, status |-> StatusOK,
                           totalCount |-> hreq[r].allPaths.len,
                           paths |-> el.paths,
                           fromCache |-> hreq[r].fromCache]]
  /\ hpc' = [hpc EXCEPT ![r] = "done"]
  /\ UNCHANGED <<heap, hmap, hreq>>
  /\ UNCHANGED <<searchVars, streamVars, transVars, statusVars>>

HFinish(r) ==
  /\ hpc[r] = "done"
  /\ hpc' = [hpc EXCEPT ![r] = "idle"]
  /\ hreq' = [hreq EXCEPT ![r] = NoHreq]
  /\ hresp' = [hresp EXCEPT ![r] = NoHresp]
  /\ UNCHANGED <<heap, hmap>>
  /\ UNCHANGED <<searchVars, streamVars, transVars, statusVars>>

\* case <-ticker.C: cleanExpiredCache(): delete(searchCache, query) for the
\* expired entries.
HSweep ==
  /\ tickerC
  /\ tickerC' = FALSE
  /\ hmap' = [q \in Keys |->
               IF hmap[q] # Nil /\ SweepExpired(heap[hmap[q]], now) THEN Nil
               ELSE hmap[q]]
  /\ UNCHANGED <<heap, hpc, hreq, hresp>>
  /\ UNCHANGED <<searchCache, cacheMutex, now, pc, req, resp, sweeperPc,
                 clearPc, oldCount, clearResp>>
  /\ UNCHANGED <<streamVars, transVars, statusVars>>

\* cacheClearHandler: searchCache = make(map[string]*SearchCache)
HClear ==
  /\ hmap' = [q \in Keys |-> Nil]
  /\ UNCHANGED <<heap, hpc, hreq, hresp>>
  /\ UNCHANGED <<searchVars, streamVars, transVars, statusVars>>

\* ------------------------------------------------------- streamHandler

NoHeader == -1

\* range, size: the Range header and fileInfo.Size(); validated, start, end:
\* serveRange reached its validation of the range at line 2519 with these
\* values of start and end; offset, limited, left: the position in the file
\* and what io.CopyN may still copy; writeErr: a write to the client failed.
NoSreq ==
  [range |-> <<>>, size |-> 0, validated |-> FALSE, start |-> 0, end |-> 0,
   offset |-> 0, limited |-> FALSE, left |-> 0, writeErr |-> FALSE]

\* body: the file offsets of the bytes written, in order; text: the handler
\* wrote the message of http.Error as the body.
NoSresp ==
  [status |-> NoStatus, contentLength |-> NoHeader, contentRange |-> <<>>,
   acceptRanges |-> FALSE, body |-> <<>>, text |-> FALSE]

StreamInit ==
  /\ streamPc = "idle"
  /\ sreq = NoSreq
  /\ fileOpen = FALSE
  /\ sresp = NoSresp

\* http.Error(w, msg, code)
HttpError(code) == [NoSresp EXCEPT !.status = code, !.text = TRUE]

\* strings.HasPrefix
HasPrefix(s, prefix) ==
  Len(s) >= Len(prefix) /\ SubSeq(s, 1, Len(prefix)) = prefix

\* strings.Split(s, sep) for a one-character sep
RECURSIVE Split(_, _)
Split(s, sep) ==
  IF \A i \in 1..Len(s) : s[i] # sep THEN <<s>>
  ELSE LET i == CHOOSE k \in 1..Len(s) :
                  s[k] = sep /\ \A j \in 1..(k - 1) : s[j] # sep
       IN  <<SubSeq(s, 1, i - 1)>> \o Split(SubSeq(s, i + 1, Len(s)), sep)

BytesPrefix == <<"b", "y", "t", "e", "s", "=">>

\* As ParseInt, reading the digits up to the first comma only.
ParseIntLenient(s) ==
  LET k == IF \E i \in 1..Len(s) : s[i] = ","
             THEN CHOOSE i \in 1..Len(s) :
                    s[i] = "," /\ \A j \in 1..(i - 1) : s[j] # ","
             ELSE Len(s) + 1
  IN  ParseSigned(SubSeq(s, 1, k - 1), MaxInt)

\* strconv.ParseInt(s, 10, 64), at the model's integer width
ParseInt(s) == ParseSigned(s, MaxInt)

\* As Unsatisfiable, without the comparison of start with end.
UnsatisfiableStartOnly(start, end, fileSize) == start >= fileSize

\* The validation of the range
Unsatisfiable(start, end, fileSize) == start > end \/ start >= fileSize

\* serveRange up to its WriteHeader: 416, or 206 with the range to copy.
RangeOutcome(rangeHeader, fileSize) ==
  LET bad        == [status |-> StatusRequestedRangeNotSatisfiable,
                     validated |-> FALSE,
                     start |-> 0, end |-> 0, contentLength |-> 0]
      rangeSpec  == SubSeq(rangeHeader, 7, Len(rangeHeader))
      rangeParts == Split(rangeSpec, "-")
      first      == ParseInt(rangeParts[1])
      second     == ParseInt(rangeParts[2])
      start      == IF rangeParts[1] # <<>> THEN first.val ELSE 0
      end        == IF rangeParts[2] # <<>> THEN second.val ELSE fileSize - 1
  IN  IF ~HasPrefix(rangeHeader, BytesPrefix) THEN bad
      ELSE IF Len(rangeParts) # 2 THEN bad
      ELSE IF rangeParts[1] # <<>> /\ first.err THEN bad
      ELSE IF rangeParts[2] # <<>> /\ second.err THEN bad
      ELSE IF Unsatisfiable(start, end, fileSize)
        THEN [bad EXCEPT !.validated = TRUE, !.start = start, !.end = end]
      ELSE [status |-> StatusPartialContent, validated |-> TRUE,
            start |-> start, end |-> end,
            contentLength |-> WrapInt(end - start + 1)]

\* os.Stat(filePath): the file is missing, the stat fails otherwise, or the
\* file exists with the given size.
StreamStat(stat, size, rangeHeader) ==
  /\ streamPc = "idle"
  /\ IF stat = "notexist"
       THEN /\ sresp' = HttpError(StatusNotFound)
            /\ streamPc' = "done"
            /\ UNCHANGED sreq
       ELSE IF stat = "error"
       THEN /\ sresp' = HttpError(StatusInternalServerError)
            /\ streamPc' = "done"
            /\ UNCHANGED sreq
       ELSE /\ sreq' = [NoSreq EXCEPT !.range = rangeHeader, !.size = size]
            /\ sresp' = NoSresp
            /\ streamPc' = "open"
  /\ UNCHANGED fileOpen
  /\ UNCHANGED <<searchVars, transVars, statusVars, heapVars>>

\* os.Open(filePath), defer file.Close(), and the headers of the response:
\* serveRange's for a request with a Range header, else those of the full
\* file.
StreamOpen(opened) ==
  /\ streamPc = "open"
  /\ IF ~opened
       THEN /\ sresp' = HttpError(StatusInternalServerError)
            /\ streamPc' = "done"
            /\ UNCHANGED <<sreq, fileOpen>>
       ELSE /\ fileOpen' = TRUE
            /\ IF sreq.range # <<>>
                 THEN LET o == RangeOutcome(sreq.range, sreq.size)
                      IN  IF o.status = StatusPartialContent
                            THEN /\ sresp' = [NoSresp EXCEPT
                                       !.status = StatusPartialContent,
                                       !.contentRange = <<o.start, o.end, sreq.size>>,
                                       !.contentLength = o.contentLength,
                                       !.acceptRanges = TRUE]
                                 /\ sreq' = [sreq EXCEPT !.validated = TRUE,
                                                         !.start = o.start,
                                                         !.end = o.end,
                                                         !.offset = o.start,
                                                         !.limited = TRUE,
                                                         !.left = o.contentLength]
                                 /\ streamPc' = "copy"
                            ELSE /\ sresp' = HttpError(o.status)
                                 /\ sreq' = [sreq EXCEPT !.validated = o.validated,
                                                         !.start = o.start,
                                                         !.end = o.end]
                                 /\ streamPc' = "close"
                 ELSE /\ sresp' = [NoSresp EXCEPT
                            !.status = StatusOK,
                            !.contentLength = sreq.size,
                            !.acceptRanges = TRUE]
                      /\ streamPc' = "copy"
                      /\ UNCHANGED sreq
  /\ UNCHANGED <<searchVars, transVars, statusVars, heapVars>>

\* As ChunkLen, stopping one byte short of the end of the file.
ChunkLenShort(q) ==
  LET avail == IF q.offset < q.size - 1 THEN q.size - 1 - q.offset ELSE 0
      want  == IF q.limited THEN (IF q.left > 0 THEN Min(q.left, avail) ELSE 0)
               ELSE avail
  IN  want

\* The most bytes one round of the copy loop can move: none past the end of
\* the file, none past the limit of io.CopyN.
ChunkLen(q) ==
  LET avail == IF q.offset < q.size THEN q.size - q.offset ELSE 0
      want  == IF q.limited THEN (IF q.left > 0 THEN Min(q.left, avail) ELSE 0)
               ELSE avail
  IN  want

\* One round of io.Copy / io.CopyN: the copy ends at the end of the file, at
\* the limit, or when the write fails because the client has gone.
StreamCopy(n, clientGone) ==
  /\ streamPc = "copy"
  /\ IF ChunkLen(sreq) = 0
       THEN /\ n = 0
            /\ ~clientGone
            /\ streamPc' = "close"
            /\ UNCHANGED <<sreq, sresp>>
       ELSE /\ n \in 1..ChunkLen(sreq)
            /\ IF clientGone
                 THEN /\ sreq' = [sreq EXCEPT !.writeErr = TRUE]
                      /\ streamPc' = "close"
                      /\ UNCHANGED sresp
                 ELSE /\ sresp' = [sresp EXCEPT !.body =
                            @ \o [k \in 1..n |-> sreq.offset + k - 1]]
                      /\ sreq' = [sreq EXCEPT !.offset = @ + n,
                                              !.left = IF sreq.limited THEN @ - n ELSE @]
                      /\ UNCHANGED streamPc
  /\ UNCHANGED fileOpen
  /\ UNCHANGED <<searchVars, transVars, statusVars, heapVars>>

\* As StreamClose, the handler returning without closing the file.
StreamCloseLeak ==
  /\ streamPc = "close"
  /\ streamPc' = "done"
  /\ UNCHANGED <<sreq, sresp, fileOpen>>
  /\ UNCHANGED <<searchVars, transVars, statusVars, heapVars>>

\* The deferred file.Close() as the handler returns.
StreamClose ==
  /\ streamPc = "close"
  /\ fileOpen' = FALSE
  /\ streamPc' = "done"
  /\ UNCHANGED <<sreq, sresp>>
  /\ UNCHANGED <<searchVars, transVars, statusVars, heapVars>>

StreamFinish ==
  /\ streamPc = "done"
  /\ streamPc' = "idle"
  /\ sreq' = NoSreq
  /\ sresp' = NoSresp
  /\ UNCHANGED fileOpen
  /\ UNCHANGED <<searchVars, transVars, statusVars, heapVars>>

\* ------------------------------------------------------ transcodeHandler

\* url, other: r.URL.Path after the prefix and the request's other inputs;
\* path: filePath; stat: what os.Stat returned; gone: the client has
\* disconnected, so that writes to w fail.
NoTreq ==
  [url |-> <<>>, other |-> [crf |-> "", method |-> ""], path |-> <<>>,
   stat |-> "", gone |-> FALSE]

\* headers: Content-Type, Accept-Ranges and Cache-Control are set; body: the
\* chunks of output written to the response; text: the message of http.Error.
NoTresp == [status |-> NoStatus, headers |-> FALSE, body |-> 0, text |-> FALSE]

\* state: "none", "running", "exited" (not yet waited for), "reaped";
\* written: the chunks the process has written to its stdout.
NoProc ==
  [state |-> "none", args |-> <<>>, spawns |-> 0, written |-> 0, code |-> 0]

\* buf: chunks in the pipe; readOpen: the read end is open.
NoPipe == [buf |-> 0, readOpen |-> FALSE]

NoCopy == [state |-> "none", writeErr |-> FALSE]

\* buf: the chunks in the stderr pipe, each "error" (it contains "error" or
\* "Error") or "plain"; pending: the chunk the process is blocked writing
\* while the pipe is full; readOpen: the read end is open; wrote: the chunks
\* the process has written; logged: the chunks the goroutine logged;
\* drains: the draining goroutines the request has started.
NoErr ==
  [buf |-> <<>>, pending |-> None, readOpen |-> FALSE, wrote |-> 0,
   logged |-> <<>>, drains |-> 0]

\* No transcoder has been run yet.
NoLog == [url |-> <<>>, other |-> [crf |-> "", method |-> ""], args |-> <<>>]

TranscodeInit ==
  /\ mainPc = "boot"
  /\ ffmpegAvailable = FALSE
  /\ tpc = [t \in TProcs |-> "idle"]
  /\ treq = [t \in TProcs |-> NoTreq]
  /\ tresp = [t \in TProcs |-> NoTresp]
  /\ tproc = [t \in TProcs |-> NoProc]
  /\ tpipe = [t \in TProcs |-> NoPipe]
  /\ tcopy = [t \in TProcs |-> NoCopy]
  /\ tstderr = [t \in TProcs |-> "none"]
  /\ terr = [t \in TProcs |-> NoErr]
  /\ tlog = NoLog

\* checkFFmpegAvailability, called by main before it serves: found is whether
\* `ffmpeg -version` ran without error.
CheckFFmpegAvailability(found) ==
  /\ mainPc = "boot"
  /\ ffmpegAvailable' = found
  /\ mainPc' = "serving"
  /\ UNCHANGED <<tpc, treq, tresp, tproc, tpipe, tcopy, tstderr, terr>>
  /\ UNCHANGED <<searchVars, streamVars, statusVars, heapVars, tlog>>

\* url.QueryUnescape on a path given as a sequence of characters and escape
\* sequences: a lone "%" is an invalid escape.
Unescape(tok) ==
  CASE tok = "%252F" -> "%2F"
    [] tok = "%2F"   -> "/"
    [] tok = "+"     -> " "
    [] OTHER         -> tok

QueryUnescape(s) ==
  IF \E i \in 1..Len(s) : s[i] = "%"
    THEN [err |-> TRUE, val |-> <<>>]
    ELSE [err |-> FALSE, val |-> [i \in 1..Len(s) |-> Unescape(s[i])]]

\* The decoding loop: up to n passes, stopping at the first error.
RECURSIVE DecodeTimes(_, _)
DecodeTimes(s, n) ==
  IF n = 0 THEN s
  ELSE LET decoded == QueryUnescape(s)
       IN  IF decoded.err THEN s ELSE DecodeTimes(decoded.val, n - 1)

\* strings.ReplaceAll for one-character strings
ReplaceAll(s, old, new) ==
  [i \in 1..Len(s) |-> IF s[i] = old THEN new ELSE s[i]]

\* filePath as transcodeHandler computes it from the URL path
ResolvePath(url) == ReplaceAll(DecodeTimes(url, DecodePasses), "/", "\\")

\* As TranscodeArgs, taking the quality from a query parameter when given.
TranscodeArgsFromQuery(filePath, other) ==
  <<"-i", filePath, "-c:v", "libx264", "-c:a", "aac", "-preset", "fast",
    "-crf", IF other.crf # "" THEN other.crf ELSE "23",
    "-maxrate", "2M", "-bufsize", "4M", "-f", "mp4",
    "-movflags", "frag_keyframe+empty_moov", "-">>

\* The arguments of exec.Command("ffmpeg", ...)
TranscodeArgs(filePath, other) ==
  <<"-i", filePath, "-c:v", "libx264", "-c:a", "aac", "-preset", "fast",
    "-crf", "23", "-maxrate", "2M", "-bufsize", "4M", "-f", "mp4",
    "-movflags", "frag_keyframe+empty_moov", "-">>

TError(code) == [NoTresp EXCEPT !.status = code, !.text = TRUE]

\* As TranscodeStart, without the check of ffmpegAvailable.
TranscodeStartUnchecked(t, url, other) ==
  /\ mainPc = "serving"
  /\ tpc[t] = "idle"
  /\ treq' = [treq EXCEPT ![t] = [NoTreq EXCEPT !.url = url, !.other = other,
                                                !.path = ResolvePath(url)]]
  /\ tpc' = [tpc EXCEPT ![t] = "stat"]
  /\ UNCHANGED <<mainPc, ffmpegAvailable, tresp, tproc, tpipe, tcopy, tstderr, terr>>
  /\ UNCHANGED <<searchVars, streamVars, statusVars, heapVars, tlog>>

\* transcodeHandler up to the stat of the file
TranscodeStart(t, url, other) ==
  /\ mainPc = "serving"
  /\ tpc[t] = "idle"
  /\ IF ~ffmpegAvailable
       THEN /\ tresp' = [tresp EXCEPT ![t] = TError(StatusServiceUnavailable)]
            /\ treq' = [treq EXCEPT ![t] = [NoTreq EXCEPT !.url = url,
                                                          !.other = other]]
            /\ tpc' = [tpc EXCEPT ![t] = "done"]
       ELSE /\ treq' = [treq EXCEPT ![t] = [NoTreq EXCEPT !.url = url,
                                                          !.other = other,
                                                          !.path = ResolvePath(url)]]
            /\ tpc' = [tpc EXCEPT ![t] = "stat"]
            /\ UNCHANGED tresp
  /\ UNCHANGED <<mainPc, ffmpegAvailable, tproc, tpipe, tcopy, tstderr, terr>>
  /\ UNCHANGED <<searchVars, streamVars, statusVars, heapVars, tlog>>

\* os.Stat(filePath): only a missing file ends the request; after any other
\* outcome the handler sets its headers and builds the command.
TranscodeStat(t, stat) ==
  /\ tpc[t] = "stat"
  /\ IF stat = "notexist"
       THEN /\ tresp' = [tresp EXCEPT ![t] = TError(StatusNotFound)]
            /\ tpc' = [tpc EXCEPT ![t] = "done"]
       ELSE /\ tresp' = [tresp EXCEPT ![t].headers = TRUE]
            /\ tpc' = [tpc EXCEPT ![t] = "pipe"]
  /\ treq' = [treq EXCEPT ![t].stat = stat]
  /\ UNCHANGED <<mainPc, ffmpegAvailable, tproc, tpipe, tcopy, tstderr, terr>>
  /\ UNCHANGED <<searchVars, streamVars, statusVars, heapVars, tlog>>

\* http.Error after the headers were set keeps them.
TErrorAfterHeaders(code) == [TError(code) EXCEPT !.headers = TRUE]

\* cmd.StderrPipe()
TranscodeStderrPipe(t, ok) ==
  /\ tpc[t] = "pipe"
  /\ IF ok
       THEN /\ tpc' = [tpc EXCEPT ![t] = "start"]
            /\ UNCHANGED tresp
       ELSE /\ tresp' = [tresp EXCEPT
                  ![t] = TErrorAfterHeaders(StatusInternalServerError)]
            /\ tpc' = [tpc EXCEPT ![t] = "done"]
  /\ UNCHANGED <<mainPc, ffmpegAvailable, treq, tproc, tpipe, tcopy, tstderr, terr>>
  /\ UNCHANGED <<searchVars, streamVars, statusVars, heapVars, tlog>>

\* cmd.Start(): on success the process runs, exec.Cmd's goroutine copies the
\* stdout pipe to w, and the handler starts the goroutine draining stderr.
TranscodeCmdStart(t, ok) ==
  /\ tpc[t] = "start"
  /\ IF ok
       THEN /\ tproc' = [tproc EXCEPT ![t] =
                  [state |-> "running",
                   args |-> TranscodeArgs(treq[t].path, treq[t].other),
                   spawns |-> tproc[t].spawns + 1,
                   written |-> 0, code |-> 0]]
            /\ tpipe' = [tpipe EXCEPT ![t] = [buf |-> 0, readOpen |-> TRUE]]
            /\ tcopy' = [tcopy EXCEPT ![t] = [state |-> "copying",
                                             writeErr |-> FALSE]]
            /\ tstderr' = [tstderr EXCEPT ![t] = "reading"]
            /\ terr' = [terr EXCEPT ![t] = [NoErr EXCEPT
                                              !.readOpen = TRUE,
                                              !.drains = terr[t].drains + 1]]
            /\ tpc' = [tpc EXCEPT ![t] = "wait"]
            /\ UNCHANGED tresp
       ELSE /\ tresp' = [tresp EXCEPT
                  ![t] = TErrorAfterHeaders(StatusInternalServerError)]
            /\ tpc' = [tpc EXCEPT ![t] = "done"]
            /\ UNCHANGED <<tproc, tpipe, tcopy, tstderr, terr>>
  /\ UNCHANGED <<mainPc, ffmpegAvailable, treq>>
  /\ UNCHANGED <<searchVars, streamVars, statusVars, heapVars, tlog>>

\* The process writes a chunk of output to its stdout: into the pipe while
\* the read end is open (blocking while the pipe is full), else the write
\* fails with a broken pipe and the process terminates.
ProcWrite(t) ==
  /\ tproc[t].state = "running"
  /\ terr[t].pending = None
  /\ IF tpipe[t].readOpen
       THEN /\ tpipe[t].buf = 0
            /\ tproc[t].written < MaxChunks
            /\ tpipe' = [tpipe EXCEPT ![t].buf = 1]
            /\ tproc' = [tproc EXCEPT ![t].written = @ + 1]
       ELSE /\ tproc' = [tproc EXCEPT ![t].state = "exited", ![t].code = 1]
            /\ UNCHANGED tpipe
  /\ UNCHANGED <<mainPc, ffmpegAvailable, tpc, treq, tresp, tcopy, tstderr, terr>>
  /\ UNCHANGED <<searchVars, streamVars, statusVars, heapVars, tlog>>

\* The process writes a chunk to its stderr: into the pipe, or, while the
\* pipe is full, blocking until the chunk fits.
ProcStderrWrite(t, kind) ==
  /\ tproc[t].state = "running"
  /\ terr[t].pending = None
  /\ terr[t].wrote < MaxErrChunks
  /\ terr' = [terr EXCEPT
               ![t].wrote = @ + 1,
               ![t].buf = IF Len(@) < StderrPipeCap THEN Append(@, kind) ELSE @,
               ![t].pending = IF Len(terr[t].buf) < StderrPipeCap THEN None
                              ELSE kind]
  /\ UNCHANGED <<mainPc, ffmpegAvailable, tpc, treq, tresp, tproc, tpipe,
                 tcopy, tstderr>>
  /\ UNCHANGED <<searchVars, streamVars, statusVars, heapVars, tlog>>

\* The process exits with the given status, closing its ends of the pipes.
ProcExit(t, code) ==
  /\ tproc[t].state = "running"
  /\ terr[t].pending = None
  /\ tproc' = [tproc EXCEPT ![t].state = "exited", ![t].code = code]
  /\ UNCHANGED <<mainPc, ffmpegAvailable, tpc, treq, tresp, tpipe, tcopy,
                 tstderr, terr>>
  /\ UNCHANGED <<searchVars, streamVars, statusVars, heapVars, tlog>>

\* The client disconnects while the handler waits; from then on writes to w
\* fail. (Only the copier writes to w, and only while the handler waits.)
ClientGone(t) ==
  /\ tpc[t] \in {"wait", "join"}
  /\ ~treq[t].gone
  /\ treq' = [treq EXCEPT ![t].gone = TRUE]
  /\ UNCHANGED <<mainPc, ffmpegAvailable, tpc, tresp, tproc, tpipe, tcopy,
                 tstderr, terr>>
  /\ UNCHANGED <<searchVars, streamVars, statusVars, heapVars, tlog>>

\* As CopyStep, trying the write again after it failed.
CopyStepRetry(t) ==
  /\ tcopy[t].state = "copying"
  /\ IF tpipe[t].buf > 0
       THEN IF treq[t].gone
              THEN /\ tcopy' = [tcopy EXCEPT ![t].writeErr = TRUE]
                   /\ UNCHANGED <<tpipe, tresp>>
              ELSE /\ tresp' = [tresp EXCEPT ![t].body = @ + 1,
                                             ![t].status = StatusOK]
                   /\ tpipe' = [tpipe EXCEPT ![t].buf = 0]
                   /\ UNCHANGED tcopy
       ELSE /\ tproc[t].state # "running"
            /\ tcopy' = [tcopy EXCEPT ![t].state = "done"]
            /\ tpipe' = [tpipe EXCEPT ![t].readOpen = FALSE]
            /\ UNCHANGED tresp
  /\ UNCHANGED <<mainPc, ffmpegAvailable, tpc, treq, tproc, tstderr, terr>>
  /\ UNCHANGED <<searchVars, streamVars, statusVars, heapVars, tlog>>

\* One round of the copier's io.Copy(w, pr): it reads a chunk and writes it
\* to w, ending (and closing the read end) when the write fails or when the
\* pipe is empty and its write end closed.
CopyStep(t) ==
  /\ tcopy[t].state = "copying"
  /\ IF tpipe[t].buf > 0
       THEN IF treq[t].gone
              THEN /\ tcopy' = [tcopy EXCEPT ![t] = [state |-> "done",
                                                     writeErr |-> TRUE]]
                   /\ tpipe' = [tpipe EXCEPT ![t] = [buf |-> 0,
                                                     readOpen |-> FALSE]]
                   /\ UNCHANGED tresp
              ELSE /\ tresp' = [tresp EXCEPT ![t].body = @ + 1,
                                             ![t].status = StatusOK]
                   /\ tpipe' = [tpipe EXCEPT ![t].buf = 0]
                   /\ UNCHANGED tcopy
       ELSE /\ tproc[t].state # "running"
            /\ tcopy' = [tcopy EXCEPT ![t].state = "done"]
            /\ tpipe' = [tpipe EXCEPT ![t].readOpen = FALSE]
            /\ UNCHANGED tresp
  /\ UNCHANGED <<mainPc, ffmpegAvailable, tpc, treq, tproc, tstderr, terr>>
  /\ UNCHANGED <<searchVars, streamVars, statusVars, heapVars, tlog>>

\* The pipe after a chunk was read from it: a blocked write completes.
AfterRead(e) ==
  [e EXCEPT !.buf = Tail(@) \o (IF e.pending = None THEN <<>> ELSE <<e.pending>>),
            !.pending = None]

\* As StderrDrain, leaving the loop after it logged a chunk.
StderrDrainUntilLogged(t) ==
  /\ tstderr[t] = "reading"
  /\ IF terr[t].readOpen /\ terr[t].buf # <<>>
       THEN LET output == Head(terr[t].buf)
            IN  /\ terr' = [terr EXCEPT
                             ![t] = [AfterRead(@) EXCEPT !.logged =
                                       IF output = "error"
                                         THEN Append(@, output) ELSE @]]
                /\ tstderr' = [tstderr EXCEPT ![t] =
                                 IF output = "error" THEN "done" ELSE @]
       ELSE /\ ~terr[t].readOpen \/ tproc[t].state # "running"
            /\ tstderr' = [tstderr EXCEPT ![t] = "done"]
            /\ UNCHANGED terr
  /\ UNCHANGED <<mainPc, ffmpegAvailable, tpc, treq, tresp, tproc, tpipe,
                 tcopy>>
  /\ UNCHANGED <<searchVars, streamVars, statusVars, heapVars, tlog>>

\* One round of the stderr goroutine's loop: stderr.Read(buf) returns a
\* chunk, which is logged if it contains "error" or "Error", or it fails,
\* the read end being closed or the pipe empty and its write end closed, and
\* the goroutine ends.
StderrDrain(t) ==
  /\ tstderr[t] = "reading"
  /\ IF terr[t].readOpen /\ terr[t].buf # <<>>
       THEN LET output == Head(terr[t].buf)
            IN  /\ terr' = [terr EXCEPT
                             ![t] = [AfterRead(@) EXCEPT !.logged =
                                       IF output = "error"
                                         THEN Append(@, output) ELSE @]]
                /\ UNCHANGED tstderr
       ELSE /\ ~terr[t].readOpen \/ tproc[t].state # "running"
            /\ tstderr' = [tstderr EXCEPT ![t] = "done"]
            /\ UNCHANGED terr
  /\ UNCHANGED <<mainPc, ffmpegAvailable, tpc, treq, tresp, tproc, tpipe,
                 tcopy>>
  /\ UNCHANGED <<searchVars, streamVars, statusVars, heapVars, tlog>>

\* cmd.Wait(), first part: wait for the process to exit and collect its status.
TranscodeWaitExit(t) ==
  /\ tpc[t] = "wait"
  /\ tproc[t].state = "exited"
  /\ tproc' = [tproc EXCEPT ![t].state = "reaped"]
  /\ tpc' = [tpc EXCEPT ![t] = "join"]
  /\ UNCHANGED <<mainPc, ffmpegAvailable, treq, tresp, tpipe, tcopy, tstderr, terr>>
  /\ UNCHANGED <<searchVars, streamVars, statusVars, heapVars, tlog>>

\* As TranscodeWaitCopy, returning without waiting for the copier.
TranscodeWaitCopyNoJoin(t) ==
  /\ tpc[t] = "join"
  /\ tpc' = [tpc EXCEPT ![t] = "done"]
  /\ tresp' = [tresp EXCEPT ![t].status =
                 IF @ = NoStatus THEN StatusOK ELSE @]
  /\ terr' = [terr EXCEPT ![t].readOpen = FALSE]
  /\ UNCHANGED <<mainPc, ffmpegAvailable, treq, tproc, tpipe, tcopy, tstderr>>
  /\ UNCHANGED <<searchVars, streamVars, statusVars, heapVars, tlog>>

\* cmd.Wait(), second part: wait for the copier to end and close the read
\* end of the stderr pipe; then the handler logs and returns, the status
\* being 200 if nothing was written.
TranscodeWaitCopy(t) ==
  /\ tpc[t] = "join"
  /\ tcopy[t].state = "done"
  /\ tpc' = [tpc EXCEPT ![t] = "done"]
  /\ tresp' = [tresp EXCEPT ![t].status =
                 IF @ = NoStatus THEN StatusOK ELSE @]
  /\ terr' = [terr EXCEPT ![t].readOpen = FALSE]
  /\ UNCHANGED <<mainPc, ffmpegAvailable, treq, tproc, tpipe, tcopy, tstderr>>
  /\ UNCHANGED <<searchVars, streamVars, statusVars, heapVars, tlog>>

\* The goroutine of the request has ended, and so have those it started.
TranscodeFinish(t) ==
  /\ tpc[t] = "done"
  /\ tstderr[t] # "reading"
  /\ tpc' = [tpc EXCEPT ![t] = "idle"]
  /\ treq' = [treq EXCEPT ![t] = NoTreq]
  /\ tresp' = [tresp EXCEPT ![t] = NoTresp]
  /\ tproc' = [tproc EXCEPT ![t] = NoProc]
  /\ tpipe' = [tpipe EXCEPT ![t] = NoPipe]
  /\ tcopy' = [tcopy EXCEPT ![t] = NoCopy]
  /\ tstderr' = [tstderr EXCEPT ![t] = "none"]
  /\ terr' = [terr EXCEPT ![t] = NoErr]
  /\ UNCHANGED <<mainPc, ffmpegAvailable>>
  /\ tlog' = IF tproc[t].spawns > 0
               THEN [url |-> treq[t].url, other |-> treq[t].other,
                     args |-> tproc[t].args]
               ELSE tlog
  /\ UNCHANGED <<searchVars, streamVars, statusVars, heapVars>>

\* ---------------------------------------------------------- specifications

vars == <<searchVars, streamVars, transVars, statusVars, heapVars>>

Init == SearchInit /\ StreamInit /\ TranscodeInit /\ StatusInit /\ HeapInit

\* Spec: two concurrent search requests, the sweeper and the clear handler.
SpecQueries == {"", "video"}
SpecPageStrs == {<<>>}
SpecPageSizeStrs == {<<>>}
SpecResults == {<<>>, <<"a", "b">>}

StatChoices(r) ==
  SUBSET StatIndices(req[r].page, req[r].pageSize, Len(req[r].allPaths))

Next ==
  \/ \E r \in Procs :
       \/ \E q \in SpecQueries, ps \in SpecPageStrs, pss \in SpecPageSizeStrs :
            ApiSearchStart(r, q, ps, pss)
       \/ CacheRLock(r)
       \/ CacheRead(r)
       \/ CacheCheck(r)
       \/ \E res \in Outcomes(SpecResults) : SearchSDK(r, res)
       \/ \E res \in Outcomes(SpecResults) : SearchESExe(r, res)
       \/ CacheLock(r)
       \/ CachePut(r)
       \/ \E statFailed \in StatChoices(r) : Paginate(r, statFailed)
       \/ Finish(r)
  \/ Tick
  \/ SweeperWake
  \/ SweeperLock
  \/ SweeperSweep
  \/ ClearLock
  \/ ClearCount
  \/ ClearReplace
  \/ ClearRespond

Spec == Init /\ [][Next]_vars

\* SpecClear: one search request at a time over two queries, with the
\* sweeper and the clear handler.
ClearProcs == {"r1"}
ClearQueries == {"video", "doc"}

NextClear ==
  \/ \E r \in ClearProcs :
       \/ \E q \in ClearQueries, ps \in SpecPageStrs, pss \in SpecPageSizeStrs :
            ApiSearchStart(r, q, ps, pss)
       \/ CacheRLock(r)
       \/ CacheRead(r)
       \/ CacheCheck(r)
       \/ \E res \in Outcomes(SpecResults) : SearchSDK(r, res)
       \/ \E res \in Outcomes(SpecResults) : SearchESExe(r, res)
       \/ CacheLock(r)
       \/ CachePut(r)
       \/ \E statFailed \in StatChoices(r) : Paginate(r, statFailed)
       \/ Finish(r)
  \/ Tick
  \/ SweeperWake
  \/ SweeperLock
  \/ SweeperSweep
  \/ ClearLock
  \/ ClearCount
  \/ ClearReplace
  \/ ClearRespond

SpecClear == Init /\ [][NextClear]_vars

\* SpecSweep: one search request at a time, the sweeper, the clear handler
\* and the status handler, with a clock that advances only when no step
\* that needs the processor alone is pending: the sweeper's steps and the
\* steps a lock holder takes between locking and unlocking take no time,
\* while a call of the Locator, an os.Stat and a write to a client may take
\* any time.
SweepProcs == {"r1"}
SweepQueries == {"video"}

CpuPending ==
  \/ tickerC /\ sweeperPc = "wait"
  \/ sweeperPc = "lock" /\ CanLock(cacheMutex)
  \/ sweeperPc = "sweep"
  \/ \E r \in SweepProcs : pc[r] \in {"read", "put"}
  \/ clearPc \in {"locked", "counted"}
  \/ statusPc = "locked"

TickUrgent ==
  /\ ~CpuPending
  /\ now + TickerInterval <= MaxSweepTime
  /\ now' = now + TickerInterval
  /\ tickerC' = TRUE
  /\ UNCHANGED <<searchCache, cacheMutex, pc, req, resp, sweeperPc, clearPc,
                 oldCount, clearResp>>
  /\ UNCHANGED <<streamVars, transVars, statusVars, heapVars>>

NextSweep ==
  \/ \E r \in SweepProcs :
       \/ \E q \in SweepQueries, ps \in SpecPageStrs, pss \in SpecPageSizeStrs :
            ApiSearchStart(r, q, ps, pss)
       \/ CacheRLock(r)
       \/ CacheRead(r)
       \/ CacheCheck(r)
       \/ \E res \in Outcomes(SpecResults) : SearchSDK(r, res)
       \/ \E res \in Outcomes(SpecResults) : SearchESExe(r, res)
       \/ CacheLock(r)
       \/ CachePut(r)
       \/ \E statFailed \in StatChoices(r) : Paginate(r, statFailed)
       \/ Finish(r)
  \/ TickUrgent
  \/ SweeperWake
  \/ SweeperLock
  \/ SweeperSweep
  \/ ClearLock
  \/ ClearCount
  \/ ClearReplace
  \/ ClearRespond
  \/ StatusRLock
  \/ StatusBuild
  \/ StatusRespond

SpecSweep == Init /\ [][NextSweep]_vars

\* SpecStream: stream requests, one after the other, for files of every size
\* up to MaxFileSize and the Range headers below.
Range(spec) == BytesPrefix \o spec

RangeHeaders ==
  { <<>>,
    Range(<<"0", "-", "0">>),
    Range(<<"1", "-">>),
    Range(<<"0", "-">>),
    Range(<<"1", "-", "2">>),
    Range(<<"2", "-", "1">>),
    Range(<<"-", "2">>),
    Range(<<"-">>),
    Range(<<"0", "-", "9">>),
    Range(<<"9", "-">>),
    Range(<<"0", "-", "1", ",", "2", "-", "2">>),
    Range(<<"0", ",", "1", "-">>),
    Range(<<"0", "-", "1", ",">>),
    Range(<<",", "-", "1">>),
    Range(<<"0", ",", "1">>),
    Range(<<"x", "-", "1">>),
    Range(<<"0", "-", "x">>),
    Range(<<"0", "-">> \o Decimal(MaxInt)),
    Range(<<"0", "-">> \o Decimal(MaxInt) \o <<"0">>),
    <<"b", "y", "t", "e", "s">>,
    <<"0", "-", "1">> }

NextStream ==
  \/ \E stat \in {"ok", "notexist", "error"}, size \in 0..MaxFileSize,
        rangeHeader \in RangeHeaders : StreamStat(stat, size, rangeHeader)
  \/ \E opened \in BOOLEAN : StreamOpen(opened)
  \/ \E n \in 0..MaxFileSize, clientGone \in BOOLEAN : StreamCopy(n, clientGone)
  \/ StreamClose
  \/ StreamFinish

SpecStream == Init /\ [][NextStream]_vars

\* SpecApi: search requests, one after the other, with every kind of page
\* and pageSize parameter and path lists of every length up to MaxPaths.
PathPool == <<"a", "b", "c", "d", "e", "f", "g", "h">>

ApiProcs == {"r1"}
ApiQueries == {"", "video"}
ApiResults == {SubSeq(PathPool, 1, n) : n \in 0..MaxPaths} \cup {<<"a", "a">>}

\* A page for which (page - 1) * pageSize is a multiple of 2^IntBits when
\* pageSize is 128.
WrappingPage == 2^(IntBits - 7) + 1

ApiPageStrs ==
  { <<>>, <<"x">>, <<"0">>, <<"-", "1">>, <<"1">>, <<"+", "2">>, <<"3">>,
    <<"4">>, <<"2", "x">>, Decimal(WrappingPage), Decimal(MaxInt),
    Decimal(MaxInt + 1) }

ApiPageSizeStrs ==
  { <<>>, <<"x">>, <<"0">>, <<"-", "3">>, <<"1">>, <<"2">>, <<"3">>,
    <<"1", "2", "8">>, Decimal(MaxPageSize), Decimal(MaxPageSize + 1) }

NextApi ==
  \/ \E r \in ApiProcs :
       \/ \E q \in ApiQueries, ps \in ApiPageStrs, pss \in ApiPageSizeStrs :
            ApiSearchStart(r, q, ps, pss)
       \/ CacheRLock(r)
       \/ CacheRead(r)
       \/ CacheCheck(r)
       \/ \E res \in Outcomes(ApiResults) : SearchSDK(r, res)
       \/ \E res \in Outcomes(ApiResults) : SearchESExe(r, res)
       \/ CacheLock(r)
       \/ CachePut(r)
       \/ \E statFailed \in StatChoices(r) : Paginate(r, statFailed)
       \/ Finish(r)
  \/ Tick

SpecApi == Init /\ [][NextApi]_vars

\* SpecHeap: two concurrent search requests for one query, the sweeper and
\* the clear handler, over the map of pointers.
HResults == {<<"a">>, <<"a", "b">>}

NextHeap ==
  \/ \E r \in HProcs :
       \/ HStart(r)
       \/ HGet(r)
       \/ HCheck(r)
       \/ \E res \in Outcomes(HResults) : HLocate(r, res)
       \/ HPut(r)
       \/ HPaginate(r)
       \/ HFinish(r)
  \/ Tick
  \/ HSweep
  \/ HClear

SpecHeap == Init /\ [][NextHeap]_vars

\* SpecEntry: one request at a time through either entry point of
\* searchFilesWithCache, /api/search and /search.
EntryProcs == {"r1"}
EntryQueries == {"", "video"}
EntryPageStrs == {<<>>, <<"0">>, <<"2">>, <<"-", "1">>}
EntryPageSizeStrs == {<<>>, <<"0">>, <<"2">>, <<"2", "0", "1">>}

NextEntry ==
  \/ \E r \in EntryProcs :
       \/ \E q \in EntryQueries, ps \in EntryPageStrs, pss \in EntryPageSizeStrs :
            ApiSearchStart(r, q, ps, pss)
       \/ \E q \in EntryQueries : SearchHandlerStart(r, q)
       \/ CacheRLock(r)
       \/ CacheRead(r)
       \/ CacheCheck(r)
       \/ \E res \in Outcomes(ApiResults) : SearchSDK(r, res)
       \/ \E res \in Outcomes(ApiResults) : SearchESExe(r, res)
       \/ CacheLock(r)
       \/ CachePut(r)
       \/ \E statFailed \in StatChoices(r) : Paginate(r, statFailed)
       \/ \E statFailed \in StatChoices(r) : SearchHandlerRespond(r, statFailed)
       \/ Finish(r)
  \/ Tick

SpecEntry == Init /\ [][NextEntry]_vars

\* ------------------------------------------------------------------ claims

\* The request has passed the lookup and has a path list to page through.
Paging(r) == pc[r] \in {"page", "done"} /\ req[r].query # ""

\* C1: a search request is answered from the cache (fromCache, no Locator
\* backend invoked) exactly when the entry it read from the store under the
\* read lock exists and is younger than cacheExpiry at the time of the check;
\* with no entry, or with an entry aged cacheExpiry or more (swept or not),
\* the lookup is a miss and the Locator is invoked.
C1Inv ==
  \A r \in Procs :
    /\ (Paging(r) /\ req[r].fromCache) => req[r].sdkCalls = 0 /\ req[r].esCalls = 0
    /\ (pc[r] \in {"esexe", "wlock", "put"} \/ (Paging(r) /\ ~req[r].fromCache))
         => req[r].sdkCalls = 1
    /\ (pc[r] = "done" /\ resp[r].status = StatusOK)
         => resp[r].fromCache = req[r].fromCache

C1Step ==
  \A r \in Procs :
    /\ (pc[r] = "read" /\ pc'[r] = "check")
         => req'[r].cache = searchCache[req[r].query]
    /\ (pc[r] = "check" /\ pc'[r] # "check")
         => LET e     == req[r].cache
                young == e # NoEntry /\ now - e.Timestamp < cacheExpiry
            IN  /\ req'[r].fromCache <=> young
                /\ young => pc'[r] = "page"
                /\ ~young => pc'[r] = "sdk" /\ req'[r].sdkCalls = 0

C1_CacheHitIffFresh == []C1Inv /\ [][C1Step]_vars

\* An entry aged exactly cacheExpiry is still in the store, the sweeper has
\* not removed it, and a request for its query has missed and is about to
\* call the Locator.
C1_Witness ==
  \E r \in Procs :
    /\ pc[r] = "sdk"
    /\ searchCache[req[r].query] # NoEntry
    /\ now - searchCache[req[r].query].Timestamp = cacheExpiry
    /\ \A o \in Procs \ {r} : pc[o] = "idle"

\* C2: cacheClearHandler is atomic.  From its Lock to its Unlock it is the
\* only holder of cacheMutex, no request is inside its read or its put and the
\* sweeper is not inside its sweep; the count it takes is the number of
\* entries of the store, the store does not change between the count and the
\* replacement, the store is empty from the replacement to the Unlock, and the
\* cleared_count of the response is the count taken.
C2Inv ==
  /\ clearPc \in {"locked", "counted", "replaced"}
       => /\ cacheMutex = [writer |-> "clear", readers |-> {}]
          /\ \A r \in Procs : pc[r] \notin {"read", "put"}
          /\ sweeperPc # "sweep"
  /\ clearPc = "counted" => oldCount = CacheLen(searchCache)
  /\ clearPc = "replaced" => CacheLen(searchCache) = 0

C2Step ==
  /\ (clearPc = "counted" /\ searchCache' # searchCache)
       => clearPc' = "replaced" /\ CacheLen(searchCache') = 0
  /\ clearPc = "replaced" => searchCache' = searchCache
  /\ (clearPc = "replaced" /\ clearPc' = "idle") => clearResp' = oldCount

C2_ClearAllAtomic == []C2Inv /\ [][C2Step]_vars

\* The handler has counted two entries and emptied the store while a search
\* request is waiting for the write lock to put its result.
C2_Witness ==
  /\ clearPc = "replaced"
  /\ oldCount = 2
  /\ \E r \in Procs : pc[r] = "wlock"
  /\ sweeperPc = "lock"

\* C3: the put stores the located list with Timestamp = now; a lookup copies
\* the store's entry without changing the store (neither the entry's Paths
\* nor its Timestamp), and a hit hands on exactly the Paths of the entry read,
\* same elements in the same order.  So two lookups of an entry that is not
\* replaced, swept or cleared in between both return the list that was put.
C3Step ==
  \A r \in Procs :
    /\ (pc[r] = "put" /\ pc'[r] = "page")
         => searchCache'[req[r].query] = [Paths |-> req[r].allPaths, Timestamp |-> now]
    /\ (pc[r] = "rlock" /\ pc'[r] = "read") => searchCache' = searchCache
    /\ (pc[r] = "read" /\ pc'[r] = "check")
         => /\ searchCache' = searchCache
            /\ req'[r].cache = searchCache[req[r].query]
    /\ (pc[r] = "check" /\ pc'[r] # "check")
         => /\ searchCache' = searchCache
            /\ req'[r].fromCache => req'[r].allPaths = req[r].cache.Paths

C3_CacheIdempotent == [][C3Step]_vars

\* Two requests have both hit the entry that a put stored and that is still
\* in the store, and hold the same non-empty list.
C3_Witness ==
  /\ \A r \in Procs :
       /\ pc[r] = "page"
       /\ req[r].fromCache
       /\ req[r].query = "video"
       /\ req[r].allPaths = <<"a", "b">>
  /\ searchCache["video"] # NoEntry
  /\ searchCache["video"].Paths = <<"a", "b">>
  /\ now - searchCache["video"].Timestamp < cacheExpiry

\* The smallest k with k * b >= a, for a >= 0 and b >= 1.
CeilDiv(a, b) == CHOOSE k \in 0..a : k * b >= a /\ (k = 0 \/ (k - 1) * b < a)

\* C4: the search API rejects a request with 400, without invoking the
\* Locator and without touching the cache, exactly when q is empty.  Every
\* other request is accepted whatever page and pageSize are, with page >= 1
\* and 1 <= pageSize <= MaxPageSize: a page that is absent, not a number, out
\* of int's range, zero or negative becomes 1, a pageSize that is absent, not
\* a number, zero, negative or above MaxPageSize becomes DefaultPageSize, and
\* any other value is used as given.
C4Inv ==
  \A r \in Procs :
    pc[r] # "idle" =>
      LET p  == Atoi(req[r].pageStr)
          ps == Atoi(req[r].pageSizeStr)
      IN  /\ req[r].query = "" <=> (pc[r] = "done" /\ resp[r].status = StatusBadRequest)
          /\ req[r].query = "" => req[r].sdkCalls = 0 /\ req[r].esCalls = 0
          /\ req[r].query # "" =>
               /\ req[r].page >= 1
               /\ req[r].pageSize >= 1 /\ req[r].pageSize <= MaxPageSize
               /\ req[r].page =
                    IF req[r].pageStr # <<>> /\ ~p.err /\ p.val >= 1 THEN p.val ELSE 1
               /\ req[r].pageSize =
                    IF /\ req[r].pageSizeStr # <<>>
                       /\ ~ps.err /\ ps.val >= 1 /\ ps.val <= MaxPageSize
                      THEN ps.val ELSE DefaultPageSize

C4Step ==
  \A r \in Procs :
    (pc[r] = "idle" /\ pc'[r] = "done") => searchCache' = searchCache

C4_OnlyEmptyQueryRejected == []C4Inv /\ [][C4Step]_vars

\* A request with page=-1 and pageSize=MaxPageSize+1 has been answered 200
\* with page 1 and pageSize DefaultPageSize.
C4_Witness ==
  \E r \in Procs :
    /\ pc[r] = "done"
    /\ req[r].pageStr = <<"-", "1">>
    /\ req[r].pageSizeStr = Decimal(MaxPageSize + 1)
    /\ resp[r].status = StatusOK
    /\ resp[r].page = 1
    /\ resp[r].pageSize = DefaultPageSize

\* The request has come to its page with a path list: a hit, or a backend
\* that succeeded.
Answered(r) == pc[r] = "done" /\ req[r].query # "" /\ req[r].es # "failed"

\* C5: for a list of totalCount paths, a pageSize in [1, MaxPageSize] and a
\* page with 1 <= page <= ceil(totalCount / pageSize), the response's
\* totalPages is ceil(totalCount / pageSize) and the paths examined for the
\* page are the contiguous slice of the list that starts at index
\* (page-1)*pageSize and has min(pageSize, totalCount - (page-1)*pageSize)
\* elements, in list order.
C5_PageWindow ==
  \A r \in Procs :
    LET n     == Len(req[r].allPaths)
        first == (req[r].page - 1) * req[r].pageSize
        len   == Min(req[r].pageSize, n - first)
    IN  (/\ Answered(r)
         /\ req[r].page >= 1
         /\ req[r].page <= CeilDiv(n, req[r].pageSize))
        => /\ resp[r].status = StatusOK
           /\ resp[r].totalCount = n
           /\ resp[r].totalPages = CeilDiv(n, req[r].pageSize)
           /\ resp[r].examined = SubSeq(req[r].allPaths, first + 1, first + len)

\* The scenario of the spec: list a..e, page 2, pageSize 2 gives c, d with
\* totalCount 5 and totalPages 3.
C5_Witness ==
  \E r \in Procs :
    /\ Answered(r)
    /\ resp[r].sent
    /\ req[r].allPaths = <<"a", "b", "c", "d", "e">>
    /\ resp[r].page = 2
    /\ resp[r].pageSize = 2
    /\ resp[r].examined = <<"c", "d">>
    /\ resp[r].totalCount = 5
    /\ resp[r].totalPages = 3

\* The elements of seq whose position, counted from 0 at offset, is not in
\* skip.
RECURSIVE Surviving(_, _, _)
Surviving(seq, offset, skip) ==
  IF seq = <<>> THEN <<>>
  ELSE (IF offset \in skip THEN <<>> ELSE <<Head(seq)>>)
         \o Surviving(Tail(seq), offset + 1, skip)

\* C6: stat failures change neither the totals nor the outcome.  Every
\* response of a request that came to its page is a 200 whose totalCount is
\* the length of the path list used (cached or located), whose totalPages is
\* computed from that unfiltered count, and whose records are the paths of
\* the window the request examined whose stat succeeded, in window order, so
\* possibly fewer than the window holds and possibly none.
C6_StatFailuresKeepTotals ==
  \A r \in Procs :
    (Answered(r) /\ resp[r].sent) =>
      /\ resp[r].status = StatusOK
      /\ resp[r].totalCount = Len(req[r].allPaths)
      /\ resp[r].totalPages = CeilDiv(Len(req[r].allPaths), resp[r].pageSize)
      /\ resp[r].results =
           Surviving(resp[r].examined, WindowStart(req[r].page, req[r].pageSize),
                     resp[r].statFailed)
      /\ resp[r].count = Len(resp[r].results)
      /\ resp[r].count = Len(resp[r].examined) - Cardinality(resp[r].statFailed)

\* Every stat of a window of two paths has failed: no record, totals intact.
C6_Witness ==
  \E r \in Procs :
    /\ Answered(r)
    /\ resp[r].sent
    /\ Len(resp[r].examined) = 2
    /\ Cardinality(resp[r].statFailed) = 2
    /\ resp[r].results = <<>>
    /\ resp[r].totalCount = 5
    /\ resp[r].totalPages = 3

\* C7: an accepted request whose page is greater than totalPages, for a
\* non-empty path list, is answered 200 with no record, no path stat'ed and
\* the usual totals.
C7_PageBeyondLastIsEmpty ==
  \A r \in Procs :
    LET n == Len(req[r].allPaths)
    IN  (Answered(r) /\ n > 0 /\ req[r].page > CeilDiv(n, req[r].pageSize))
        => /\ resp[r].status = StatusOK
           /\ resp[r].results = <<>>
           /\ resp[r].examined = <<>>
           /\ resp[r].totalCount = n
           /\ resp[r].totalPages = CeilDiv(n, req[r].pageSize)
           /\ resp[r].page = req[r].page
           /\ resp[r].pageSize = req[r].pageSize

\* C8: a query for which the path list is empty is answered 200 with
\* totalCount 0, totalPages 0 and no record, for every page and pageSize,
\* whether the empty list was just located or comes from the cache.
C8_EmptyResult ==
  \A r \in Procs :
    (Answered(r) /\ req[r].allPaths = <<>>)
    => /\ resp[r].status = StatusOK
       /\ resp[r].totalCount = 0
       /\ resp[r].totalPages = 0
       /\ resp[r].results = <<>>
       /\ resp[r].count = 0

\* An empty list served from the cache for the largest page there is.
C8_Witness ==
  \E r \in Procs :
    /\ Answered(r)
    /\ req[r].fromCache
    /\ req[r].allPaths = <<>>
    /\ req[r].page = MaxInt
    /\ resp[r].totalPages = 0

FileBytes(size) == [k \in 1..size |-> k - 1]

\* C10: a stream request without a Range header for a file that exists and
\* opens is answered 200 with Content-Length equal to the file size and
\* Accept-Ranges: bytes, and, unless a write fails because the client has
\* gone, with the whole file as its body, for every file size including 0.
C10_FullFile ==
  (streamPc \in {"copy", "close", "done"} /\ sreq.range = <<>> /\ ~sresp.text)
  => /\ sresp.status = StatusOK
     /\ sresp.contentLength = sreq.size
     /\ sresp.acceptRanges
     /\ sresp.contentRange = <<>>
     /\ (streamPc = "done" /\ ~sreq.writeErr) => sresp.body = FileBytes(sreq.size)

\* A file of MaxFileSize bytes has been delivered in full.
C10_Witness ==
  /\ streamPc = "done"
  /\ sreq.range = <<>>
  /\ sresp.status = StatusOK
  /\ sreq.size = MaxFileSize
  /\ ~sreq.writeErr
  /\ Len(sresp.body) = MaxFileSize

\* serveRange has run for the request: the file was found and opened and the
\* request carries a Range header.
ServedRange ==
  /\ streamPc \in {"copy", "close", "done"}
  /\ sreq.range # <<>>
  /\ sresp.status # StatusInternalServerError

\* The Range header is bytes= followed by a range whose start is empty.
EmptyStart(rangeHeader) ==
  /\ Len(rangeHeader) > Len(BytesPrefix)
  /\ SubSeq(rangeHeader, 1, Len(BytesPrefix)) = BytesPrefix
  /\ rangeHeader[Len(BytesPrefix) + 1] = "-"

\* C11: a Range header whose start is empty (bytes=-2, bytes=-) is answered
\* with 416; an empty start is never read as start = 0.
C11_EmptyStartIs416 ==
  (ServedRange /\ EmptyStart(sreq.range))
  => sresp.status = StatusRequestedRangeNotSatisfiable

ExplicitStart(rangeHeader) ==
  /\ Len(rangeHeader) > Len(BytesPrefix)
  /\ SubSeq(rangeHeader, 1, Len(BytesPrefix)) = BytesPrefix
  /\ rangeHeader[Len(BytesPrefix) + 1] # "-"

\* C13: every Range header with an explicit start that serveRange accepts is
\* answered 206 with Content-Range start-end/fileSize and Content-Length
\* end - start + 1, and, unless a write fails because the client has gone,
\* with exactly the file's bytes start..end as the body.
C13_PartialContent ==
  (ServedRange /\ ExplicitStart(sreq.range)
     /\ sresp.status # StatusRequestedRangeNotSatisfiable)
  => /\ sresp.status = StatusPartialContent
     /\ sresp.contentRange = <<sreq.start, sreq.end, sreq.size>>
     /\ sresp.contentLength = sreq.end - sreq.start + 1
     /\ sresp.acceptRanges
     /\ \A k \in 1..Len(sresp.body) : sresp.body[k] = sreq.start + k - 1
     /\ Len(sresp.body) <= sresp.contentLength
     /\ (streamPc = "done" /\ ~sreq.writeErr)
          => /\ Len(sresp.body) = sresp.contentLength
             /\ sreq.end < sreq.size

\* The Range header holds a comma.
HasComma(rangeHeader) == \E i \in 1..Len(rangeHeader) : rangeHeader[i] = ","

\* C14: every Range header that holds a comma, wherever it stands, is
\* answered 416 and never 206, and none of the file is sent.
C14_CommaIs416 ==
  (ServedRange /\ HasComma(sreq.range))
  => /\ sresp.status = StatusRequestedRangeNotSatisfiable
     /\ sresp.body = <<>>
     /\ sresp.contentRange = <<>>

\* A header whose comma stands inside one of exactly two parts around a
\* single "-" has been answered, for a file that is not empty.
C14_Witness ==
  /\ streamPc = "done"
  /\ ServedRange
  /\ HasComma(sreq.range)
  /\ Len(SelectSeq(sreq.range, LAMBDA c : c = "-")) = 1
  /\ sreq.size > 0
  /\ sresp.status = StatusRequestedRangeNotSatisfiable

\* SpecTranscode: main's probe of ffmpeg, then transcode requests, one after
\* the other.
TransUrls ==
  { <<"a">>, <<"d", "/", "a">>, <<"d", "%252F", "a">>, <<"a", "%">> }

OtherInputs ==
  { [crf |-> "", method |-> "GET"], [crf |-> "0", method |-> "POST"] }

\* A chunk of stderr output contains "error" or "Error", or neither.
ChunkKinds == {"plain", "error"}

NextTranscode ==
  \/ \E found \in BOOLEAN : CheckFFmpegAvailability(found)
  \/ \E t \in TProcs, url \in TransUrls, other \in OtherInputs :
       TranscodeStart(t, url, other)
  \/ \E t \in TProcs, stat \in {"ok", "notexist", "error"} : TranscodeStat(t, stat)
  \/ \E t \in TProcs, ok \in BOOLEAN : TranscodeStderrPipe(t, ok)
  \/ \E t \in TProcs, ok \in BOOLEAN : TranscodeCmdStart(t, ok)
  \/ \E t \in TProcs : ProcWrite(t)
  \/ \E t \in TProcs, kind \in ChunkKinds : ProcStderrWrite(t, kind)
  \/ \E t \in TProcs, code \in {0, 1} : ProcExit(t, code)
  \/ \E t \in TProcs : ClientGone(t)
  \/ \E t \in TProcs : CopyStep(t)
  \/ \E t \in TProcs : StderrDrain(t)
  \/ \E t \in TProcs : TranscodeWaitExit(t)
  \/ \E t \in TProcs : TranscodeWaitCopy(t)
  \/ \E t \in TProcs : TranscodeFinish(t)

SpecTranscode == Init /\ [][NextTranscode]_vars

\* SpecTranscodeFair: as SpecTranscode, with the goroutines scheduled fairly
\* and a transcoder that keeps either writing output or exiting.
TranscodeFairness ==
  \A t \in TProcs :
    /\ WF_vars(ProcWrite(t) \/ \E code \in {0, 1} : ProcExit(t, code))
    /\ WF_vars(CopyStep(t))
    /\ WF_vars(StderrDrain(t))
    /\ WF_vars(TranscodeWaitExit(t))
    /\ WF_vars(TranscodeWaitCopy(t))

SpecTranscodeFair == Init /\ [][NextTranscode]_vars /\ TranscodeFairness

\* C15: the availability of the transcoder is set once, by main's probe,
\* and never changes afterwards; while it is false every transcode request
\* is answered 503 without its path being looked at and no process is
\* spawned.
C15Inv ==
  (mainPc = "serving" /\ ~ffmpegAvailable)
  => /\ tlog = NoLog
     /\ \A t \in TProcs :
          /\ tproc[t] = NoProc
          /\ tpc[t] \in {"idle", "done"}
          /\ tpc[t] = "done"
               => /\ tresp[t] = TError(StatusServiceUnavailable)
                  /\ treq[t].stat = ""

C15Step ==
  mainPc = "serving"
  => /\ mainPc' = "serving"
     /\ ffmpegAvailable' = ffmpegAvailable

C15_Unavailable503 == []C15Inv /\ [][C15Step]_vars

\* Without a transcoder, a request for a path whose decoding fails has been
\* answered.
C15_Witness ==
  /\ mainPc = "serving"
  /\ ~ffmpegAvailable
  /\ \E t \in TProcs :
       /\ tpc[t] = "done"
       /\ treq[t].url = <<"a", "%">>
       /\ tresp[t].status = StatusServiceUnavailable

\* C16: with the transcoder available, a process is spawned for a request
\* only if the stat of the source succeeded; a request for a missing source
\* is answered 404 with no process spawned; a request spawns at most one
\* process, whatever becomes of the spawn and of the process.
C16_SpawnOnlyAfterStat ==
  \A t \in TProcs :
    /\ tproc[t].spawns > 0 => treq[t].stat = "ok"
    /\ tproc[t].spawns <= 1
    /\ (tpc[t] = "done" /\ treq[t].stat = "notexist")
         => /\ tresp[t] = TError(StatusNotFound)
            /\ tproc[t] = NoProc

\* C17: a transcode request that spawned a process has returned only when
\* the process's exit status has been collected and the copy of its output to
\* the response has ended; while the process runs or the copy is under way
\* the handler is inside cmd.Wait.
C17_WaitsForCopyAndExit ==
  \A t \in TProcs :
    /\ (tpc[t] \in {"done", "idle"} /\ tproc[t].spawns > 0)
         => /\ tproc[t].state = "reaped"
            /\ tcopy[t].state = "done"
            /\ ~tpipe[t].readOpen
    /\ tproc[t].state \in {"running", "exited"} => tpc[t] = "wait"
    /\ tcopy[t].state = "copying" => tpc[t] \in {"wait", "join"}

\* A request has returned after all the output of its process, which exited
\* with status 0, was copied to the response.
C17_Witness ==
  \E t \in TProcs :
    /\ tpc[t] = "done"
    /\ tproc[t].state = "reaped"
    /\ tproc[t].code = 0
    /\ tproc[t].written = MaxChunks
    /\ tresp[t].body = MaxChunks

\* C18: once a write of transcoder output to the response has failed, no
\* further output is written to the response, and, given a transcoder that
\* keeps writing or exits, the process terminates and is reaped and the
\* handler returns; a request that has ended leaves no process running or
\* unreaped.
C18Inv ==
  \A t \in TProcs :
    tpc[t] \in {"done", "idle"} => tproc[t].state \in {"none", "reaped"}

C18Step ==
  \A t \in TProcs :
    (tcopy[t].writeErr /\ tcopy'[t].writeErr)
    => /\ tresp'[t].body = tresp[t].body
       /\ tcopy'[t].state = "done"

C18_DisconnectUnwinds ==
  /\ []C18Inv
  /\ [][C18Step]_vars
  /\ \A t \in TProcs :
       (tcopy[t].writeErr /\ tpc[t] # "done")
         ~> (tpc[t] = "done" /\ tproc[t].state = "reaped")

\* A request whose client went away before all the output was delivered has
\* returned, its process reaped.
C18_Witness ==
  \E t \in TProcs :
    /\ tpc[t] = "done"
    /\ tcopy[t].writeErr
    /\ tproc[t].state = "reaped"
    /\ tresp[t].body < tproc[t].written

\* C19: the file the stream handler opened is closed when the handler has
\* returned, on every path: after the whole file, after a range, after a
\* 416 of serveRange and after a failed write, which ends the copy and
\* changes nothing in the response.
C19Inv ==
  /\ streamPc \in {"idle", "done"} => ~fileOpen
  /\ fileOpen => streamPc \in {"copy", "close"}
  /\ sreq.writeErr
       => /\ streamPc \in {"close", "done"}
          /\ sresp.status \in {StatusOK, StatusPartialContent}
          /\ ~sresp.text

C19Step ==
  /\ (sreq.writeErr /\ sreq'.writeErr) => sresp' = sresp
  /\ (fileOpen /\ ~fileOpen') => streamPc' = "done"

C19_FileClosed == []C19Inv /\ [][C19Step]_vars

\* A range request whose copy a failed write cut short has returned.
C19_Witness ==
  /\ streamPc = "done"
  /\ sreq.writeErr
  /\ sresp.status = StatusPartialContent
  /\ Len(sresp.body) < sresp.contentLength
  /\ ~fileOpen

\* C20: the transcoder's arguments depend on the source path only: a request
\* that resolves to the same path as an earlier one spawns the transcoder
\* with the same arguments, whatever else differs between the requests, and
\* every argument but the path is the same for all requests.
C20_ArgsFromPathOnly ==
  \A t \in TProcs :
    tproc[t].spawns > 0
    => LET args == tproc[t].args
       IN  /\ args[1] = "-i"
           /\ args[2] = treq[t].path
           /\ tlog # NoLog
                => /\ Len(args) = Len(tlog.args)
                   /\ \A i \in 1..Len(args) : i # 2 => args[i] = tlog.args[i]
                   /\ tlog.args[2] = treq[t].path => args = tlog.args

\* Two requests with different URL paths and different other inputs have
\* both spawned the transcoder for the same source path.
C20_Witness ==
  \E t \in TProcs :
    /\ tproc[t].spawns > 0
    /\ tlog # NoLog
    /\ tlog.args[2] = treq[t].path
    /\ tlog.url # treq[t].url
    /\ tlog.other # treq[t].other

\* C21: after a run of the sweep at time now the store holds exactly the
\* entries it held before with now - Timestamp < cacheExpiry: every entry
\* aged cacheExpiry or more, also one aged exactly cacheExpiry, is removed
\* and no younger one is.
C21Step ==
  (sweeperPc = "sweep" /\ sweeperPc' = "wait")
  => \A q \in Keys :
       searchCache'[q] =
         IF searchCache[q] # NoEntry
              /\ now - searchCache[q].Timestamp < cacheExpiry
           THEN searchCache[q]
           ELSE NoEntry

C21_SweepRemovesAtTTL == [][C21Step]_vars

\* C28: for every page the handler accepts and every pageSize in
\* [1, MaxPageSize], the window bounds computed in int arithmetic satisfy
\* 0 <= start <= start + pageSize, the path list is never indexed outside
\* [0, totalCount), and a page beyond the last one, however large, is
\* answered with no record and no path stat'ed.
C28_WindowInBounds ==
  \A r \in Procs :
    (Paging(r) /\ req[r].es # "failed")
    => LET n     == Len(req[r].allPaths)
           start == WindowStart(req[r].page, req[r].pageSize)
       IN  /\ req[r].page >= 1
           /\ req[r].pageSize \in 1..MaxPageSize
           /\ start >= 0
           /\ start <= WrapInt(start + req[r].pageSize)
           /\ ~IndexPanics(req[r].page, req[r].pageSize, n)
           /\ (pc[r] = "done" /\ n > 0
                 /\ req[r].page > CeilDiv(n, req[r].pageSize))
                => /\ resp[r].sent
                   /\ resp[r].results = <<>>
                   /\ resp[r].examined = <<>>

\* C29: every 206 of serveRange describes a range inside the file:
\* 0 <= start <= end <= fileSize - 1 and Content-Length <= fileSize - start,
\* whatever end the request named.
C29_RangeInsideFile ==
  (ServedRange /\ sresp.status = StatusPartialContent)
  => /\ 0 <= sreq.start
     /\ sreq.start <= sreq.end
     /\ sreq.end <= sreq.size - 1
     /\ sresp.contentRange = <<sreq.start, sreq.end, sreq.size>>
     /\ sresp.contentLength >= 1
     /\ sresp.contentLength <= sreq.size - sreq.start

\* C22: on a miss the backends are tried in order within the request: es.exe
\* is invoked only after the SDK was invoked and failed, never after the SDK
\* succeeded, each at most once, none on a hit; the first success ends the
\* search; when both fail the error returned combines the SDK's error with
\* that of es.exe.
C22_BackendOrder ==
  \A r \in Procs :
    /\ req[r].sdkCalls <= 1
    /\ req[r].esCalls <= 1
    /\ req[r].esCalls > 0 => (req[r].sdk = "failed" /\ req[r].sdkCalls = 1)
    /\ req[r].sdk = "ok" => (req[r].es = None /\ req[r].esCalls = 0)
    /\ req[r].fromCache => (req[r].sdkCalls = 0 /\ req[r].esCalls = 0)
    /\ (pc[r] \in {"wlock", "put"})
         => (req[r].sdk = "ok" \/ (req[r].sdk = "failed" /\ req[r].es = "ok"))
    /\ (req[r].sdk = "failed" /\ req[r].es = "failed")
         => /\ pc[r] = "done"
            /\ resp[r].error = CombinedError(SDKError, ESError)

\* C23: a search request writes the store exactly when it had a miss and a
\* backend succeeded: it then puts the located list, empty or not, under its
\* query with the current time before it stats a path or produces a
\* response; a request with a hit, with an empty query or with both
\* backends failed leaves the store as it is.
C23Inv ==
  \A r \in Procs :
    /\ (Paging(r) /\ ~req[r].fromCache /\ req[r].es # "failed")
         => /\ searchCache[req[r].query] # NoEntry
            /\ searchCache[req[r].query].Paths = req[r].allPaths
    /\ pc[r] \in {"wlock", "put"}
         => /\ ~req[r].fromCache
            /\ req[r].sdk = "ok" \/ req[r].es = "ok"
            /\ ~resp[r].sent

C23Step ==
  \A r \in Procs :
    /\ (pc[r] = "put" /\ pc'[r] # "put")
         => /\ searchCache' = [searchCache EXCEPT ![req[r].query] =
                                 NewEntry(req[r].allPaths, now)]
            /\ pc'[r] = "page"
    /\ (pc[r] # "put" /\ pc'[r] # pc[r]) => searchCache' = searchCache

C23_PutIffMissAndFound == []C23Inv /\ [][C23Step]_vars

\* An empty list located after the entry of the query had expired has been
\* stored, and the request is about to compute its page.
C23_Witness ==
  \E r \in Procs :
    /\ pc[r] = "page"
    /\ ~req[r].fromCache
    /\ req[r].allPaths = <<>>
    /\ now >= cacheExpiry
    /\ searchCache[req[r].query] = NewEntry(<<>>, now)

\* The next step of a search request calls the Locator, stats files or
\* writes the response.
SearchAtIO(r) == pc[r] \in {"sdk", "esexe", "page"}
\* The next step of cacheClearHandler writes the response.
ClearAtIO == clearPc = "replaced"
\* The next step of cacheStatusHandler writes the response.
StatusAtIO == statusPc = "built"

\* C24: whoever holds the read lock or the write lock of the cache is not
\* calling the Locator, stat'ing a file or writing to an HTTP response; this
\* holds of the search path, of the sweeper, of the status handler and of
\* the clear handler.
C24_NoIOUnderLock ==
  /\ \A r \in Procs :
       (r \in cacheMutex.readers \/ cacheMutex.writer = r) => ~SearchAtIO(r)
  /\ cacheMutex.writer = "sweeper" => sweeperPc = "sweep"
  /\ cacheMutex.writer = "clear" => ~ClearAtIO
  /\ "status" \in cacheMutex.readers => ~StatusAtIO

\* C26: an entry that is neither replaced nor cleared leaves the store no
\* later than cacheExpiry plus two sweep intervals after it was stored.
C26_SweptWithinTwoIntervals ==
  \A q \in Keys :
    searchCache[q] # NoEntry
      => now - searchCache[q].Timestamp <= cacheExpiry + 2 * TickerInterval

\* A request is inside searchFilesWithCache.
InSearchFilesWithCache(r) ==
  pc[r] \in {"rlock", "read", "check", "sdk", "esexe", "wlock", "put", "page"}

\* C27: every invocation of searchFilesWithCache, from /api/search and from
\* /search, has page >= 1 and pageSize in 1..MaxPageSize, and no request
\* stats more than MaxPageSize paths.
C27_PaginationInputsValid ==
  \A r \in Procs :
    /\ InSearchFilesWithCache(r)
         => /\ req[r].page >= 1
            /\ req[r].pageSize \in 1..MaxPageSize
    /\ (pc[r] = "done" /\ resp[r].sent /\ resp[r].status = StatusOK)
         => Len(resp[r].examined) <= MaxPageSize

\* The SearchCache object a request holds a reference to.
Held(r) == IF hreq[r].allPaths.obj # Nil THEN hreq[r].allPaths.obj
           ELSE hreq[r].cache

\* C25: a stored entry is never changed in place. The object a request
\* obtained keeps its path list and timestamp for the rest of the request,
\* also when the store is replaced by another put, swept or cleared
\* meanwhile; the totalCount and the records of a response come from that
\* one list; two requests that hit the same entry answer with the same list.
C25Inv ==
  /\ \A r \in HProcs : Held(r) # Nil => heap[Held(r)] = hreq[r].seen
  /\ \A r \in HProcs :
       hpc[r] = "done"
         => /\ hresp[r].sent
            /\ hresp[r].status = StatusOK
                 => /\ hresp[r].paths = hreq[r].seen.Paths
                    /\ hresp[r].totalCount = Len(hreq[r].seen.Paths)
  /\ \A r1, r2 \in HProcs :
       (/\ hpc[r1] = "done" /\ hpc[r2] = "done"
        /\ hreq[r1].fromCache /\ hreq[r2].fromCache
        /\ hreq[r1].cache = hreq[r2].cache)
         => hresp[r1].paths = hresp[r2].paths

C25Step == \A a \in Addrs : heap[a] # NoEntry => heap'[a] = heap[a]

C25_EntriesImmutable == []C25Inv /\ [][C25Step]_vars

\* A request has answered from an entry it had looked up, after another
\* request replaced that entry in the store by one with a different list.
C25_Witness ==
  \E r \in HProcs :
    /\ hpc[r] = "done"
    /\ hreq[r].fromCache
    /\ hmap[HQuery] \notin {Nil, hreq[r].cache}
    /\ heap[hmap[HQuery]].Paths # hresp[r].paths
    /\ hresp[r].paths = heap[hreq[r].cache].Paths

\* C30: each spawned transcoder has one goroutine draining its stderr. It
\* reads for as long as the process runs, next to the copy of the output,
\* so a write of the process to a full stderr pipe is only waiting for the
\* goroutine's next read; it logs the chunks that contain "error" or "Error"
\* and no others; and once the process has exited and cmd.Wait has returned
\* it ends.
C30Inv ==
  \A t \in TProcs :
    /\ terr[t].drains = tproc[t].spawns
    /\ terr[t].drains <= 1
    /\ (tstderr[t] # "none") <=> (terr[t].drains = 1)
    /\ tproc[t].state = "running"
         => /\ tstderr[t] = "reading"
            /\ terr[t].readOpen
            /\ tcopy[t].state = "copying" \/ tcopy[t].writeErr
                 \/ ~tpipe[t].readOpen
    /\ terr[t].pending # None
         => /\ tstderr[t] = "reading"
            /\ terr[t].readOpen
            /\ terr[t].buf # <<>>
    /\ \A i \in 1..Len(terr[t].logged) : terr[t].logged[i] = "error"

C30Step ==
  \A t \in TProcs :
    /\ (tstderr[t] = "reading" /\ terr'[t].buf # terr[t].buf
          /\ terr'[t].wrote = terr[t].wrote /\ terr[t].buf # <<>>
          /\ tpc'[t] # "idle")
         => terr'[t].logged = IF Head(terr[t].buf) = "error"
                                THEN Append(terr[t].logged, "error")
                                ELSE terr[t].logged
    /\ (terr'[t].logged # terr[t].logged /\ tpc'[t] # "idle")
         => /\ terr[t].buf # <<>>
            /\ Head(terr[t].buf) = "error"

C30Ends ==
  \A t \in TProcs :
    (tpc[t] = "done" /\ tproc[t].state = "reaped" /\ tstderr[t] = "reading")
      ~> (tstderr[t] # "reading")

====
